---------------------------- MODULE Spec2Model ----------------------------
(***************************************************************************)
(* A model of json2cpp's duplicate-aware tree emitter (src/json2cpp.cpp)   *)
(* and of the parts of the Value view (include/json2cpp/json2cpp.hpp) the  *)
(* emitted literals are read back through.                                 *)
(*                                                                         *)
(* compile() is modelled as a state machine: the discovery pass, the four  *)
(* naming loops, then the emission pass as an explicit call stack of       *)
(* compile_dispatch / generate_node_body frames, then the `document` line. *)
(* Text is modelled as sequences of one-character strings, so formatting   *)
(* (fmt::format, dump()) and reading back are distinct operators.          *)
(* 64-bit integers are scaled down to IntBits-bit two's complement.        *)
(***************************************************************************)
EXTENDS Integers, Sequences, FiniteSets, TLC

VARIABLES
  doc,             \* the parsed input tree handed to compile()
  pc,              \* position inside compile()
  string_tracker,  \* StringDuplicateTracker
  object_tracker,  \* DuplicateTracker("obj")
  array_tracker,   \* DuplicateTracker("arr")
  pair_tracker,    \* DuplicateTracker("pair")
  lines,           \* results.impl, from the string definitions on
  obj_count,       \* the running object_data_ counter
  stack,           \* call stack of the emission pass (top is the last element)
  ret,             \* the value returned by the call that finished last
  finished,        \* the compile() calls that have returned: document and output
  json,            \* the Value a member function of the Value view is called on
  result           \* the member call made last and what came of it

\* what a running compile() call has no access to
outside == <<finished, json, result>>

vars == <<doc, pc, string_tracker, object_tracker, array_tracker, pair_tracker,
          lines, obj_count, stack, ret, outside>>

---------------------------------------------------------------------------
(* Bounds of the model *)

\* width of std::int64_t / std::uint64_t, scaled down from 64
IntBits == 4

\* most children of the root of an input document
MaxWidth == 2

TwoTo(n) == 2 ^ n

IntMin == 0 - TwoTo(IntBits - 1)

IntMax == TwoTo(IntBits - 1) - 1

UIntMax == TwoTo(IntBits) - 1

---------------------------------------------------------------------------
(* The input: an nlohmann::ordered_json tree.  A node is a record          *)
(*   k    : the node kind                                                  *)
(*   n    : the number (halves for a float, 0/1 for a boolean)             *)
(*   s    : the characters of a string                                     *)
(*   keys : the keys of an object, in insertion order                      *)
(*   c    : the children of an array or object, in order                   *)

Node(k, n, s, keys, c) == [k |-> k, n |-> n, s |-> s, keys |-> keys, c |-> c]

JNull == Node("null", 0, <<>>, <<>>, <<>>)

JBool(b) == Node("boolean", IF b THEN 1 ELSE 0, <<>>, <<>>, <<>>)

JInt(n) == Node("integer", n, <<>>, <<>>, <<>>)

JUInt(n) == Node("unsigned", n, <<>>, <<>>, <<>>)

\* a double holding h/2
JFloat(h) == Node("float", h, <<>>, <<>>, <<>>)

JStr(s) == Node("string", 0, s, <<>>, <<>>)

JArr(c) == Node("array", 0, <<>>, <<>>, c)

JObj(keys, c) == Node("object", 0, <<>>, keys, c)

is_object(v) == v.k = "object"

is_array(v) == v.k = "array"

is_string(v) == v.k = "string"

is_number_float(v) == v.k = "float"

is_number_unsigned(v) == v.k = "unsigned"

is_number(v) == v.k \in {"integer", "unsigned", "float"}

is_boolean(v) == v.k = "boolean"

is_null(v) == v.k = "null"

\* no Value is under inspection, no member call has been made
NoValue == Node("none", 0, <<>>, <<>>, <<>>)

NoResult == [op |-> "none"]

\* pair_rep[itr.key()] = *itr : the one-pair object standing for a key/value pair
PairRep(key, val) == JObj(<<key>>, <<val>>)

---------------------------------------------------------------------------
(* Text *)

DigitChars == <<"0", "1", "2", "3", "4", "5", "6", "7", "8", "9">>

RECURSIVE Digits(_)
\* the decimal digits of n >= 0
Digits(n) ==
  IF n < 10 THEN <<DigitChars[n + 1]>>
  ELSE Digits(n \div 10) \o <<DigitChars[(n % 10) + 1]>>

\* "{}" of an integer: an optional minus sign and the decimal digits
FormatInteger(n) == IF n < 0 THEN <<"-">> \o Digits(0 - n) ELSE Digits(n)

\* "{}" of a double holding h/2 (h >= 0): the shortest text, no ".0" added
FormatDouble(h) ==
  IF h % 2 = 0 THEN Digits(h \div 2) ELSE Digits(h \div 2) \o <<".", "5">>

RECURSIVE Flatten(_)
Flatten(ss) == IF ss = <<>> THEN <<>> ELSE Head(ss) \o Flatten(Tail(ss))

RECURSIVE Join(_)
\* the texts of ss with a comma between neighbours
Join(ss) ==
  IF ss = <<>> THEN <<>>
  ELSE IF Len(ss) = 1 THEN ss[1]
  ELSE ss[1] \o <<",">> \o Join(Tail(ss))

Contains(s, ch) == \E i \in 1..Len(s) : s[i] = ch

\* position of the first occurrence of pat in s, 0 when there is none
FindSub(s, pat) ==
  LET hits == {i \in 1..(Len(s) - Len(pat) + 1) :
                 \A j \in 1..Len(pat) : s[i + j - 1] = pat[j]}
  IN IF hits = {} THEN 0 ELSE CHOOSE i \in hits : \A h \in hits : i <= h

\* dump() of a string: quoted, with quote and backslash escaped
DumpString(s) ==
  <<"\"">> \o
  Flatten([i \in 1..Len(s) |->
             IF s[i] = "\"" THEN <<"\\", "\"">>
             ELSE IF s[i] = "\\" THEN <<"\\", "\\">>
             ELSE <<s[i]>>]) \o
  <<"\"">>

RECURSIVE Dump(_)
\* value.dump(): the compact JSON text of a tree.  A signed and an unsigned
\* integer print the same digits; a double always shows a fraction.
Dump(v) ==
  CASE v.k = "object" ->
         <<"{">> \o
         Join([i \in 1..Len(v.c) |-> DumpString(v.keys[i]) \o <<":">> \o Dump(v.c[i])]) \o
         <<"}">>
    [] v.k = "array" ->
         <<"[">> \o Join([i \in 1..Len(v.c) |-> Dump(v.c[i])]) \o <<"]">>
    [] v.k = "string" -> DumpString(v.s)
    [] v.k = "float" ->
         IF v.n % 2 = 0 THEN Digits(v.n \div 2) \o <<".", "0">>
         ELSE Digits(v.n \div 2) \o <<".", "5">>
    [] v.k = "unsigned" -> FormatInteger(v.n)
    [] v.k = "integer" -> FormatInteger(v.n)
    [] v.k = "boolean" -> IF v.n = 1 THEN <<"t", "r", "u", "e">>
                          ELSE <<"f", "a", "l", "s", "e">>
    [] OTHER -> <<"n", "u", "l", "l">>

---------------------------------------------------------------------------
(* Maps with a growing domain (std::unordered_map) *)

EmptyMap == [x \in {} |-> 0]

Put(m, key, val) == [x \in (DOMAIN m) \cup {key} |-> IF x = key THEN val ELSE m[x]]

\* m[key]++ with value-initialisation of a missing key
Increment(m, key) == Put(m, key, IF key \in DOMAIN m THEN m[key] + 1 ELSE 1)

---------------------------------------------------------------------------
(* Emitted text.  A name is its prefix and number ("shared_obj_" 3).  An    *)
(* expression is what compile_dispatch returns: a literal, a name, or an   *)
(* object_t{..} / array_t{..} wrapper around an object_data_ name.         *)

Name(p, n) == [p |-> p, n |-> n]

NoName == Name("", 0)

Expr(e, ty, raw, txt, name) == [e |-> e, ty |-> ty, raw |-> raw, txt |-> txt, name |-> name]

\* double{..}, std::uint64_t{..}, std::int64_t{..}, bool{..}, std::nullptr_t{}
Literal(ty, txt) == Expr("lit", ty, FALSE, txt, NoName)

\* RAW_PREFIX("..") or RAW_PREFIX(R"string(..)string")
StringLiteral(raw, txt) == Expr("lit", "RAW_PREFIX", raw, txt, NoName)

Ref(name) == Expr("ref", "", FALSE, <<>>, name)

\* mutant: the name is built from obj_count after its increment
ObjectT_AfterIncrement(n) == Expr("object_t", "", FALSE, <<>>, Name("object_data", n + 1))

ObjectT(n) == Expr("object_t", "", FALSE, <<>>, Name("object_data", n))

ArrayT(n) == Expr("array_t", "", FALSE, <<>>, Name("object_data", n))

Unhandled == Expr("unhandled", "", FALSE, <<>>, NoName)

EmptyExpr == Expr("", "", FALSE, <<>>, NoName)

Line(t, name, size, a, b) == [t |-> t, name |-> name, size |-> size, a |-> a, b |-> b]

\* inline constexpr auto <name> = <literal>;
StringDefLine(name, lit) == Line("string_def", name, 0, lit, EmptyExpr)

BlankLine == Line("blank", NoName, 0, EmptyExpr, EmptyExpr)

\* inline constexpr auto <name> = value_pair_t{<key>, <val>};
PairDefLine(name, key, val) == Line("pair_def", name, 0, key, val)

\* inline constexpr std::array<value_pair_t, size> object_data_<n> = {{
ObjectDataLine(size, n) ==
  Line("object_data_pairs", Name("object_data", n), size, EmptyExpr, EmptyExpr)

\* inline constexpr std::array<json, size> object_data_<n> = {{
ArrayDataLine(size, n) ==
  Line("object_data_json", Name("object_data", n), size, EmptyExpr, EmptyExpr)

\* value_pair_t{<key>, <val>},
PairEntry(key, val) == Line("pair_entry", NoName, 0, key, val)

\* <name>,
PairRefEntry(name) == Line("pair_ref", name, 0, EmptyExpr, EmptyExpr)

\* {<val>},
JsonEntry(val) == Line("json_entry", NoName, 0, val, EmptyExpr)

\* }};
CloseLine == Line("close", NoName, 0, EmptyExpr, EmptyExpr)

\* inline constexpr auto <name> = json{{<body>}};
SharedDefLine(name, body) == Line("shared_def", name, 0, body, EmptyExpr)

\* inline constexpr auto document = json{{<last_obj_name>}};
DocumentLine(last_obj_name) ==
  Line("document", Name("document", 0), 0, last_obj_name, EmptyExpr)

---------------------------------------------------------------------------
(* format_json_string and StringDuplicateTracker *)

format_json_string(str) ==
  LET needs_raw_string ==
        \/ Contains(str, "\"")
        \/ Contains(str, "\\")
        \/ Contains(str, "\n")
        \/ Contains(str, "\r")
        \/ Contains(str, "\t")
  IN StringLiteral(needs_raw_string, str)

NewStringTracker ==
  [string_counts |-> EmptyMap, string_to_var |-> EmptyMap,
   definitions |-> <<>>, counter |-> 0]

count_string(t, str) == [t EXCEPT !.string_counts = Increment(@, str)]

\* the orders in which a loop over an unordered_map can meet the keys in S
IterationOrders(S) ==
  {q \in [1..Cardinality(S) -> S] : \A i, j \in 1..Cardinality(S) : q[i] = q[j] => i = j}

RECURSIVE GenerateLoop(_, _)
GenerateLoop(t, order) ==
  IF order = <<>> THEN t
  ELSE LET str == Head(order)
           var_name == Name("shared_str", t.counter)
       IN GenerateLoop(
            [t EXCEPT !.counter = @ + 1,
                      !.string_to_var = Put(@, str, var_name),
                      !.definitions =
                         Append(@, StringDefLine(var_name, format_json_string(str)))],
            Tail(order))

\* order: the strings with count > 1, in the order the loop meets them
generate_definitions(t, order) ==
  LET u == GenerateLoop(t, order)
  IN IF u.definitions # <<>>
     THEN [u EXCEPT !.definitions = Append(@, BlankLine)]
     ELSE u

\* mutant: the shared name is never looked up
get_string_representation_Inline(t, str) == format_json_string(str)

get_string_representation(t, str) ==
  IF str \in DOMAIN t.string_to_var
  THEN Ref(t.string_to_var[str])
  ELSE format_json_string(str)

---------------------------------------------------------------------------
(* DuplicateTracker *)

NewDuplicateTracker(p) ==
  [counts |-> EmptyMap, signature_to_var |-> EmptyMap,
   processed_signatures |-> {}, counter |-> 0, prefix |-> p]

track(t, value) == [t EXCEPT !.counts = Increment(@, Dump(value))]

SharedPrefix(p) ==
  CASE p = "obj" -> "shared_obj"
    [] p = "arr" -> "shared_arr"
    [] OTHER -> "shared_pair"

\* mutant: the counter is read and not advanced
RECURSIVE PrepareLoop_NoIncrement(_, _)
PrepareLoop_NoIncrement(t, order) ==
  IF order = <<>> THEN t
  ELSE PrepareLoop_NoIncrement(
         [t EXCEPT !.signature_to_var =
                      Put(@, Head(order), Name(SharedPrefix(t.prefix), t.counter))],
         Tail(order))

RECURSIVE PrepareLoop(_, _)
PrepareLoop(t, order) ==
  IF order = <<>> THEN t
  ELSE PrepareLoop(
         [t EXCEPT !.counter = @ + 1,
                   !.signature_to_var =
                      Put(@, Head(order), Name(SharedPrefix(t.prefix), t.counter))],
         Tail(order))

\* order: the signatures with count > 1, in the order the loop meets them
prepare_variables(t, order) == PrepareLoop(t, order)

is_shared(t, signature) == signature \in DOMAIN t.signature_to_var

\* mutant: nothing counts as emitted before
is_processed_Never(t, signature) == FALSE

is_processed(t, signature) == signature \in t.processed_signatures

\* mutant: the signature is not recorded
mark_as_processed_Forgotten(t, signature) == t

mark_as_processed(t, signature) ==
  [t EXCEPT !.processed_signatures = @ \cup {signature}]

\* mutant: a second occurrence is not enough
MoreThanOnce_Twice(counts) == {x \in DOMAIN counts : counts[x] > 2}

MoreThanOnce(counts) == {x \in DOMAIN counts : counts[x] > 1}

---------------------------------------------------------------------------
(* Discovery pass *)

Trackers(s, o, a, p) == [s |-> s, o |-> o, a |-> a, p |-> p]

RECURSIVE analyze_for_duplicates(_, _)
RECURSIVE AnalyzePairs(_, _, _)
RECURSIVE AnalyzeItems(_, _, _)

analyze_for_duplicates(value, T) ==
  IF is_object(value)
  THEN AnalyzePairs(value, 1, [T EXCEPT !.o = track(@, value)])
  ELSE IF is_array(value)
  THEN AnalyzeItems(value, 1, [T EXCEPT !.a = track(@, value)])
  ELSE IF is_string(value)
  THEN [T EXCEPT !.s = count_string(@, value.s)]
  ELSE T

\* mutant: the pairs are counted by the object tracker
AnalyzePairs_IntoObjects(value, i, T) ==
  IF i > Len(value.c) THEN T
  ELSE LET T1 == [T EXCEPT !.s = count_string(@, value.keys[i]),
                           !.o = track(@, PairRep(value.keys[i], value.c[i]))]
       IN AnalyzePairs(value, i + 1, analyze_for_duplicates(value.c[i], T1))

AnalyzePairs(value, i, T) ==
  IF i > Len(value.c) THEN T
  ELSE LET T1 == [T EXCEPT !.s = count_string(@, value.keys[i]),
                           !.p = track(@, PairRep(value.keys[i], value.c[i]))]
       IN AnalyzePairs(value, i + 1, analyze_for_duplicates(value.c[i], T1))

AnalyzeItems(value, i, T) ==
  IF i > Len(value.c) THEN T
  ELSE AnalyzeItems(value, i + 1, analyze_for_duplicates(value.c[i], T))

---------------------------------------------------------------------------
(* Input documents: trees as the JSON parser builds them.  The parser      *)
(* stores a number without sign, fraction or exponent as unsigned, a       *)
(* number with a minus sign as signed (so -0 is the signed 0), and keeps   *)
(* one pair per object key.                                                *)

KeyA == <<"a">>

KeyB == <<"b">>

Keys == {KeyA, KeyB}

\* a"  (needs a raw literal)
StrQuote == <<"a", "\"">>

\* )string"  (the text that closes the raw literal)
StrClose == <<")", "s", "t", "r", "i", "n", "g", "\"">>

Leaves ==
  {JNull, JBool(TRUE), JBool(FALSE),
   JInt(IntMin), JInt(0 - 1), JInt(0),
   JUInt(0), JUInt(1), JUInt(UIntMax),
   JFloat(2), JFloat(3),
   JStr(KeyA), JStr(StrQuote), JStr(StrClose)}

SeqsUpTo(S, n) == UNION {[1..m -> S] : m \in 0..n}

KeySeqsUpTo(n) ==
  {ks \in SeqsUpTo(Keys, n) : \A i, j \in 1..Len(ks) : ks[i] = ks[j] => i = j}

ArraysOver(S, n) == {JArr(c) : c \in SeqsUpTo(S, n)}

ObjectsOver(S, n) ==
  UNION {{JObj(ks, c) : c \in [1..Len(ks) -> S]} : ks \in KeySeqsUpTo(n)}

\* small structures
Inner ==
  ArraysOver({JUInt(0), JInt(0), JStr(KeyA)}, 1) \cup ObjectsOver({JUInt(0)}, 2)

\* structures around a small structure
Wrapped ==
  UNION {{JArr(<<y>>), JObj(<<KeyA>>, <<y>>), JObj(<<KeyA, KeyB>>, <<y, JUInt(0)>>)} :
           y \in {JArr(<<JUInt(0)>>), JObj(<<KeyA>>, <<JUInt(0)>>)}}

\* arrays and objects of up to MaxWidth children from S
DocsOver(S) == ArraysOver(S, MaxWidth) \cup ObjectsOver(S, MaxWidth)

\* one or two small structures or leaves side by side
Siblings ==
  LET S == Inner \cup {JUInt(0), JStr(KeyA)} IN ArraysOver(S, 2) \cup ObjectsOver(S, 2)

\* objects of two pairs, in either key order
TwoKeyed == {o \in ObjectsOver({JUInt(0), JStr(KeyA)}, 2) : Len(o.c) = 2}

\* an object twice and another object next to it
Repeated == {JArr(<<x, x, y>>) : x \in TwoKeyed, y \in TwoKeyed}

\* structures two and three levels deep
Nested == DocsOver(Wrapped) \cup Repeated

Docs == Leaves \cup DocsOver(Leaves) \cup Siblings \cup Nested

---------------------------------------------------------------------------
(* compile(): the state machine *)

\* a call frame of the emission pass
Frame(fn, node, st, i, cur, acc, var) ==
  [fn |-> fn, node |-> node, st |-> st, i |-> i, cur |-> cur, acc |-> acc, var |-> var]

\* a call of compile_dispatch(value, ..)
DispatchFrame(value) == Frame("compile_dispatch", value, "call", 0, 0, <<>>, NoName)

\* a call of generate_node_body(value, ..): current_object_number = obj_count++
BodyFrame(value) == Frame("generate_node_body", value, "loop", 1, obj_count, <<>>, NoName)

Top == stack[Len(stack)]

Caller == SubSeq(stack, 1, Len(stack) - 1)

SetTop(f) == [stack EXCEPT ![Len(stack)] = f]

Running == pc = "emit" /\ stack # <<>>

InDispatch(st) == Running /\ Top.fn = "compile_dispatch" /\ Top.st = st

InBody(st) == Running /\ Top.fn = "generate_node_body" /\ Top.st = st

Init ==
  /\ doc \in Docs
  /\ pc = "analyze"
  /\ string_tracker = NewStringTracker
  /\ object_tracker = NewDuplicateTracker("obj")
  /\ array_tracker = NewDuplicateTracker("arr")
  /\ pair_tracker = NewDuplicateTracker("pair")
  /\ lines = <<>>
  /\ obj_count = 0
  /\ stack = <<>>
  /\ ret = EmptyExpr
  /\ finished = <<>>
  /\ json = NoValue
  /\ result = NoResult

\* analyze_for_duplicates(json, ..)
Analyze ==
  /\ pc = "analyze"
  /\ LET T == analyze_for_duplicates(
                doc, Trackers(string_tracker, object_tracker, array_tracker, pair_tracker))
     IN /\ string_tracker' = T.s
        /\ object_tracker' = T.o
        /\ array_tracker' = T.a
        /\ pair_tracker' = T.p
  /\ pc' = "generate_definitions"
  /\ UNCHANGED <<outside, doc, lines, obj_count, stack, ret>>

\* string_tracker.generate_definitions()
GenerateDefinitions ==
  /\ pc = "generate_definitions"
  /\ \E order \in IterationOrders(MoreThanOnce(string_tracker.string_counts)) :
       string_tracker' = generate_definitions(string_tracker, order)
  /\ pc' = "prepare_obj"
  /\ UNCHANGED <<outside, doc, object_tracker, array_tracker, pair_tracker, lines, obj_count, stack, ret>>

\* object_tracker.prepare_variables()
PrepareObjects ==
  /\ pc = "prepare_obj"
  /\ \E order \in IterationOrders(MoreThanOnce(object_tracker.counts)) :
       object_tracker' = prepare_variables(object_tracker, order)
  /\ pc' = "prepare_arr"
  /\ UNCHANGED <<outside, doc, string_tracker, array_tracker, pair_tracker, lines, obj_count, stack, ret>>

\* array_tracker.prepare_variables()
PrepareArrays ==
  /\ pc = "prepare_arr"
  /\ \E order \in IterationOrders(MoreThanOnce(array_tracker.counts)) :
       array_tracker' = prepare_variables(array_tracker, order)
  /\ pc' = "prepare_pair"
  /\ UNCHANGED <<outside, doc, string_tracker, object_tracker, pair_tracker, lines, obj_count, stack, ret>>

\* pair_tracker.prepare_variables()
PreparePairs ==
  /\ pc = "prepare_pair"
  /\ \E order \in IterationOrders(MoreThanOnce(pair_tracker.counts)) :
       pair_tracker' = prepare_variables(pair_tracker, order)
  /\ pc' = "insert"
  /\ UNCHANGED <<outside, doc, string_tracker, object_tracker, array_tracker, lines, obj_count, stack, ret>>

\* results.impl gets the string definitions; obj_count = 0; compile_dispatch(json, ..) is called
InsertStringDefinitions ==
  /\ pc = "insert"
  /\ lines' = lines \o string_tracker.definitions
  /\ obj_count' = 0
  /\ stack' = <<DispatchFrame(doc)>>
  /\ pc' = "emit"
  /\ UNCHANGED <<outside, doc, string_tracker, object_tracker, array_tracker, pair_tracker, ret>>

---------------------------------------------------------------------------
(* Emission pass: compile_dispatch *)

\* mutant: the signed branch is tried before the unsigned one
LeafExpression_SignedFirst(value, t) ==
  IF is_number_float(value) THEN Literal("double", FormatDouble(value.n))
  ELSE IF is_number(value) THEN Literal("std::int64_t", FormatInteger(value.n))
  ELSE IF is_boolean(value)
  THEN Literal("bool", IF value.n = 1 THEN <<"t", "r", "u", "e">>
                       ELSE <<"f", "a", "l", "s", "e">>)
  ELSE IF is_string(value) THEN get_string_representation(t, value.s)
  ELSE IF is_null(value) THEN Literal("std::nullptr_t", <<>>)
  ELSE Unhandled

\* mutant: there is no branch for null
LeafExpression_NoNull(value, t) ==
  IF is_number_float(value) THEN Literal("double", FormatDouble(value.n))
  ELSE IF is_number_unsigned(value) THEN Literal("std::uint64_t", FormatInteger(value.n))
  ELSE IF is_number(value) THEN Literal("std::int64_t", FormatInteger(value.n))
  ELSE IF is_boolean(value)
  THEN Literal("bool", IF value.n = 1 THEN <<"t", "r", "u", "e">>
                       ELSE <<"f", "a", "l", "s", "e">>)
  ELSE IF is_string(value) THEN get_string_representation(t, value.s)
  ELSE Unhandled

\* the branches of compile_dispatch for a value that is no object and no array
LeafExpression(value, t) ==
  IF is_number_float(value) THEN Literal("double", FormatDouble(value.n))
  ELSE IF is_number_unsigned(value) THEN Literal("std::uint64_t", FormatInteger(value.n))
  ELSE IF is_number(value) THEN Literal("std::int64_t", FormatInteger(value.n))
  ELSE IF is_boolean(value)
  THEN Literal("bool", IF value.n = 1 THEN <<"t", "r", "u", "e">>
                       ELSE <<"f", "a", "l", "s", "e">>)
  ELSE IF is_string(value) THEN get_string_representation(t, value.s)
  ELSE IF is_null(value) THEN Literal("std::nullptr_t", <<>>)
  ELSE Unhandled

\* a shared object met again: return var_name
DispatchObjectProcessed ==
  /\ InDispatch("call")
  /\ LET value == Top.node
         signature == Dump(value)
     IN /\ is_object(value) /\ is_shared(object_tracker, signature)
        /\ is_processed(object_tracker, signature)
        /\ ret' = Ref(object_tracker.signature_to_var[signature])
  /\ stack' = Caller
  /\ UNCHANGED <<outside, doc, pc, string_tracker, object_tracker, array_tracker, pair_tracker,
                 lines, obj_count>>

\* a shared object met first: mark it, call generate_node_body
DispatchObjectFirst ==
  /\ InDispatch("call")
  /\ LET value == Top.node
         signature == Dump(value)
     IN /\ is_object(value) /\ is_shared(object_tracker, signature)
        /\ ~is_processed(object_tracker, signature)
        /\ object_tracker' = mark_as_processed(object_tracker, signature)
        /\ stack' = Append(SetTop([Top EXCEPT !.st = "await_shared",
                                              !.var = object_tracker.signature_to_var[signature]]),
                           BodyFrame(value))
  /\ obj_count' = obj_count + 1
  /\ UNCHANGED <<outside, doc, pc, string_tracker, array_tracker, pair_tracker, lines, ret>>

\* the body of a shared object is back: define var_name, return it
DispatchObjectDefine ==
  /\ InDispatch("await_shared")
  /\ is_object(Top.node)
  /\ lines' = Append(lines, SharedDefLine(Top.var, ret))
  /\ ret' = Ref(Top.var)
  /\ stack' = Caller
  /\ UNCHANGED <<outside, doc, pc, string_tracker, object_tracker, array_tracker, pair_tracker,
                 obj_count>>

\* a shared array met again: return var_name
DispatchArrayProcessed ==
  /\ InDispatch("call")
  /\ LET value == Top.node
         signature == Dump(value)
     IN /\ ~(is_object(value) /\ is_shared(object_tracker, signature))
        /\ is_array(value) /\ is_shared(array_tracker, signature)
        /\ is_processed(array_tracker, signature)
        /\ ret' = Ref(array_tracker.signature_to_var[signature])
  /\ stack' = Caller
  /\ UNCHANGED <<outside, doc, pc, string_tracker, object_tracker, array_tracker, pair_tracker,
                 lines, obj_count>>

\* a shared array met first: mark it, call generate_node_body
DispatchArrayFirst ==
  /\ InDispatch("call")
  /\ LET value == Top.node
         signature == Dump(value)
     IN /\ ~(is_object(value) /\ is_shared(object_tracker, signature))
        /\ is_array(value) /\ is_shared(array_tracker, signature)
        /\ ~is_processed(array_tracker, signature)
        /\ array_tracker' = mark_as_processed(array_tracker, signature)
        /\ stack' = Append(SetTop([Top EXCEPT !.st = "await_shared",
                                              !.var = array_tracker.signature_to_var[signature]]),
                           BodyFrame(value))
  /\ obj_count' = obj_count + 1
  /\ UNCHANGED <<outside, doc, pc, string_tracker, object_tracker, pair_tracker, lines, ret>>

\* the body of a shared array is back: define var_name, return it
DispatchArrayDefine ==
  /\ InDispatch("await_shared")
  /\ is_array(Top.node)
  /\ lines' = Append(lines, SharedDefLine(Top.var, ret))
  /\ ret' = Ref(Top.var)
  /\ stack' = Caller
  /\ UNCHANGED <<outside, doc, pc, string_tracker, object_tracker, array_tracker, pair_tracker,
                 obj_count>>

\* an object or array that is not shared: return generate_node_body(value, ..)
DispatchInline ==
  /\ InDispatch("call")
  /\ LET value == Top.node
         signature == Dump(value)
     IN /\ ~(is_object(value) /\ is_shared(object_tracker, signature))
        /\ ~(is_array(value) /\ is_shared(array_tracker, signature))
        /\ is_object(value) \/ is_array(value)
        /\ stack' = Append(SetTop([Top EXCEPT !.st = "await_inline"]), BodyFrame(value))
  /\ obj_count' = obj_count + 1
  /\ UNCHANGED <<outside, doc, pc, string_tracker, object_tracker, array_tracker, pair_tracker,
                 lines, ret>>

\* ... whose result is returned as it is
DispatchInlineReturn ==
  /\ InDispatch("await_inline")
  /\ stack' = Caller
  /\ UNCHANGED <<outside, doc, pc, string_tracker, object_tracker, array_tracker, pair_tracker,
                 lines, obj_count, ret>>

\* a number, boolean, string or null
DispatchLeaf ==
  /\ InDispatch("call")
  /\ ~is_object(Top.node) /\ ~is_array(Top.node)
  /\ ret' = LeafExpression(Top.node, string_tracker)
  /\ stack' = Caller
  /\ UNCHANGED <<outside, doc, pc, string_tracker, object_tracker, array_tracker, pair_tracker,
                 lines, obj_count>>

---------------------------------------------------------------------------
(* Emission pass: generate_node_body.  generate_node_body is only called   *)
(* with an object or an array, so its final `return ""` is never reached.  *)

AtPair == InBody("loop") /\ is_object(Top.node) /\ Top.i <= Len(Top.node.c)

PairSignature(f) == Dump(PairRep(f.node.keys[f.i], f.node.c[f.i]))

KeyRepr(f) == get_string_representation(string_tracker, f.node.keys[f.i])

\* a shared pair met again: pairs gets var_name
BodyPairProcessed ==
  /\ AtPair
  /\ is_shared(pair_tracker, PairSignature(Top))
  /\ is_processed(pair_tracker, PairSignature(Top))
  /\ stack' = SetTop([Top EXCEPT
                        !.acc = Append(@, PairRefEntry(
                                  pair_tracker.signature_to_var[PairSignature(Top)])),
                        !.i = @ + 1])
  /\ UNCHANGED <<outside, doc, pc, string_tracker, object_tracker, array_tracker, pair_tracker,
                 lines, obj_count, ret>>

\* a shared pair met first: mark it, call compile_dispatch on its value
BodyPairFirst ==
  /\ AtPair
  /\ is_shared(pair_tracker, PairSignature(Top))
  /\ ~is_processed(pair_tracker, PairSignature(Top))
  /\ pair_tracker' = mark_as_processed(pair_tracker, PairSignature(Top))
  /\ stack' = Append(SetTop([Top EXCEPT
                               !.st = "await_shared_pair",
                               !.var = pair_tracker.signature_to_var[PairSignature(Top)]]),
                     DispatchFrame(Top.node.c[Top.i]))
  /\ UNCHANGED <<outside, doc, pc, string_tracker, object_tracker, array_tracker, lines,
                 obj_count, ret>>

\* the value of a shared pair is back: define var_name, pairs gets var_name
BodyPairDefine ==
  /\ InBody("await_shared_pair")
  /\ lines' = Append(lines, PairDefLine(Top.var, KeyRepr(Top), ret))
  /\ stack' = SetTop([Top EXCEPT !.st = "loop",
                                 !.acc = Append(@, PairRefEntry(Top.var)),
                                 !.i = @ + 1])
  /\ UNCHANGED <<outside, doc, pc, string_tracker, object_tracker, array_tracker, pair_tracker,
                 obj_count, ret>>

\* a pair that is not shared: call compile_dispatch on its value
BodyPairInline ==
  /\ AtPair
  /\ ~is_shared(pair_tracker, PairSignature(Top))
  /\ stack' = Append(SetTop([Top EXCEPT !.st = "await_pair"]),
                     DispatchFrame(Top.node.c[Top.i]))
  /\ UNCHANGED <<outside, doc, pc, string_tracker, object_tracker, array_tracker, pair_tracker,
                 lines, obj_count, ret>>

\* ... pairs gets value_pair_t{key_repr, <value>}
BodyPairInlineReturn ==
  /\ InBody("await_pair")
  /\ stack' = SetTop([Top EXCEPT !.st = "loop",
                                 !.acc = Append(@, PairEntry(KeyRepr(Top), ret)),
                                 !.i = @ + 1])
  /\ UNCHANGED <<outside, doc, pc, string_tracker, object_tracker, array_tracker, pair_tracker,
                 lines, obj_count, ret>>

\* all pairs done: the object_data_ array is written, object_t{..} returned
BodyObjectFinish ==
  /\ InBody("loop") /\ is_object(Top.node) /\ Top.i > Len(Top.node.c)
  /\ lines' = lines \o <<ObjectDataLine(Len(Top.acc), Top.cur)>> \o Top.acc \o <<CloseLine>>
  /\ ret' = ObjectT(Top.cur)
  /\ stack' = Caller
  /\ UNCHANGED <<outside, doc, pc, string_tracker, object_tracker, array_tracker, pair_tracker,
                 obj_count>>

\* an array element: call compile_dispatch on it
BodyArrayElement ==
  /\ InBody("loop") /\ is_array(Top.node) /\ Top.i <= Len(Top.node.c)
  /\ stack' = Append(SetTop([Top EXCEPT !.st = "await_elem"]),
                     DispatchFrame(Top.node.c[Top.i]))
  /\ UNCHANGED <<outside, doc, pc, string_tracker, object_tracker, array_tracker, pair_tracker,
                 lines, obj_count, ret>>

\* ... entries gets {<element>}
BodyArrayElementReturn ==
  /\ InBody("await_elem")
  /\ stack' = SetTop([Top EXCEPT !.st = "loop",
                                 !.acc = Append(@, JsonEntry(ret)),
                                 !.i = @ + 1])
  /\ UNCHANGED <<outside, doc, pc, string_tracker, object_tracker, array_tracker, pair_tracker,
                 lines, obj_count, ret>>

\* all elements done: the object_data_ array is written, array_t{..} returned
BodyArrayFinish ==
  /\ InBody("loop") /\ is_array(Top.node) /\ Top.i > Len(Top.node.c)
  /\ lines' = lines \o <<ArrayDataLine(Len(Top.acc), Top.cur)>> \o Top.acc \o <<CloseLine>>
  /\ ret' = ArrayT(Top.cur)
  /\ stack' = Caller
  /\ UNCHANGED <<outside, doc, pc, string_tracker, object_tracker, array_tracker, pair_tracker,
                 obj_count>>

---------------------------------------------------------------------------

\* compile_dispatch(json, ..) is back: the document line ends results.impl
EmitDocument ==
  /\ pc = "emit" /\ stack = <<>>
  /\ lines' = Append(lines, DocumentLine(ret))
  /\ pc' = "done"
  /\ UNCHANGED <<outside, doc, string_tracker, object_tracker, array_tracker, pair_tracker,
                 obj_count, stack, ret>>

Next ==
  \/ Analyze
  \/ GenerateDefinitions
  \/ PrepareObjects
  \/ PrepareArrays
  \/ PreparePairs
  \/ InsertStringDefinitions
  \/ DispatchObjectProcessed
  \/ DispatchObjectFirst
  \/ DispatchObjectDefine
  \/ DispatchArrayProcessed
  \/ DispatchArrayFirst
  \/ DispatchArrayDefine
  \/ DispatchInline
  \/ DispatchInlineReturn
  \/ DispatchLeaf
  \/ BodyPairProcessed
  \/ BodyPairFirst
  \/ BodyPairDefine
  \/ BodyPairInline
  \/ BodyPairInlineReturn
  \/ BodyObjectFinish
  \/ BodyArrayElement
  \/ BodyArrayElementReturn
  \/ BodyArrayFinish
  \/ EmitDocument

Spec == Init /\ [][Next]_vars

\* compile() runs to its end: it is one thread and no step of it waits.
\* The inputs are the leaves and the nested structures.
FairInit == Init /\ doc \in Leaves \cup Nested

FairSpec == FairInit /\ [][Next]_vars /\ WF_vars(Next)

---------------------------------------------------------------------------
(* Reading the emitted text back: what the C++ compiler makes of a literal *)
(* and of the definitions a name stands for.                               *)

IllFormed == Node("ill_formed", 0, <<>>, <<>>, <<>>)

DigitValue(ch) == CHOOSE d \in 0..9 : DigitChars[d + 1] = ch

IsDigits(txt) == txt # <<>> /\ \A i \in 1..Len(txt) : \E d \in 0..9 : DigitChars[d + 1] = txt[i]

RECURSIVE ParseDigits(_)
ParseDigits(txt) ==
  IF txt = <<>> THEN 0
  ELSE 10 * ParseDigits(SubSeq(txt, 1, Len(txt) - 1)) + DigitValue(txt[Len(txt)])

\* The compilers of the emitted text.  A decimal literal that does not fit
\* long long is given a wider signed type by some compilers and is taken as
\* unsigned long long by the others.
Compilers == {"wide_literal", "unsigned_literal"}

\* A minus sign negates the literal in its type; list-initialisation of the
\* IntBits-bit target rejects a constant the target cannot hold.
ReadIntegerLiteral(txt, signed, compiler) ==
  LET neg == txt # <<>> /\ Head(txt) = "-"
      dig == IF neg THEN Tail(txt) ELSE txt
  IN IF ~IsDigits(dig) THEN IllFormed
     ELSE LET m == ParseDigits(dig)
              \* the value of the constant expression [-]m
              v == IF m <= IntMax \/ compiler = "wide_literal"
                   THEN (IF neg THEN 0 - m ELSE m)
                   ELSE (IF neg THEN (TwoTo(IntBits) - m) % TwoTo(IntBits) ELSE m)
          IN IF m > UIntMax THEN IllFormed
             ELSE IF signed
             THEN (IF v >= IntMin /\ v <= IntMax THEN JInt(v) ELSE IllFormed)
             ELSE (IF v >= 0 /\ v <= UIntMax THEN JUInt(v) ELSE IllFormed)

ReadDoubleLiteral(txt) ==
  LET dot == FindSub(txt, <<".">>)
  IN IF dot = 0
     THEN (IF IsDigits(txt) THEN JFloat(2 * ParseDigits(txt)) ELSE IllFormed)
     ELSE IF IsDigits(SubSeq(txt, 1, dot - 1)) /\ SubSeq(txt, dot + 1, Len(txt)) = <<"5">>
     THEN JFloat(2 * ParseDigits(SubSeq(txt, 1, dot - 1)) + 1)
     ELSE IllFormed

\* R"string( .. )string" ends at the first )string" ; ".." has no escapes to undo
\* as long as it holds no quote, backslash or line break
ReadStringLiteral(raw, txt) ==
  IF raw
  THEN (IF FindSub(txt, <<")", "s", "t", "r", "i", "n", "g", "\"">>) = 0
        THEN JStr(txt) ELSE IllFormed)
  ELSE (IF Contains(txt, "\"") \/ Contains(txt, "\\") \/ Contains(txt, "\n")
        THEN IllFormed ELSE JStr(txt))

\* the value of a literal expression of the emitted text
ReadLiteral(lit, compiler) ==
  CASE lit.ty = "double" -> ReadDoubleLiteral(lit.txt)
    [] lit.ty = "std::uint64_t" -> ReadIntegerLiteral(lit.txt, FALSE, compiler)
    [] lit.ty = "std::int64_t" -> ReadIntegerLiteral(lit.txt, TRUE, compiler)
    [] lit.ty = "bool" ->
         IF lit.txt = <<"t", "r", "u", "e">> THEN JBool(TRUE)
         ELSE IF lit.txt = <<"f", "a", "l", "s", "e">> THEN JBool(FALSE)
         ELSE IllFormed
    [] lit.ty = "std::nullptr_t" -> JNull
    [] lit.ty = "RAW_PREFIX" -> ReadStringLiteral(lit.raw, lit.txt)
    [] OTHER -> IllFormed

\* the value a literal spells out, its digits and characters taken as written
SpelledLiteral(lit) ==
  CASE lit.ty \in {"std::uint64_t", "std::int64_t"} ->
         LET neg == lit.txt # <<>> /\ Head(lit.txt) = "-"
             dig == IF neg THEN Tail(lit.txt) ELSE lit.txt
             m == ParseDigits(dig)
         IN IF ~IsDigits(dig) THEN IllFormed
            ELSE IF lit.ty = "std::int64_t" THEN JInt(IF neg THEN 0 - m ELSE m)
            ELSE IF neg THEN IllFormed
            ELSE JUInt(m)
    [] lit.ty = "RAW_PREFIX" -> JStr(lit.txt)
    [] OTHER -> ReadLiteral(lit, "unsigned_literal")

DefiningTypes ==
  {"string_def", "pair_def", "object_data_pairs", "object_data_json", "shared_def", "document"}

Defines(l, name) == l.t \in DefiningTypes /\ l.name = name

\* the lines of L that define name
DefinitionsOf(L, name) == {i \in 1..Len(L) : Defines(L[i], name)}

RECURSIVE Expand(_, _, _)
\* The tree an emitted expression stands for, every name replaced by its
\* definition; its literals as the compiler `reading` reads them, or as
\* they are spelled.
Expand(e, L, reading) ==
  LET at == DefinitionsOf(L, e.name)
      i == CHOOSE x \in at : TRUE
      \* the pair an entry line holds
      PairOf(l) ==
        IF l.t = "pair_entry" THEN l
        ELSE IF l.t = "pair_ref" /\ Cardinality(DefinitionsOf(L, l.name)) = 1
        THEN L[CHOOSE x \in DefinitionsOf(L, l.name) : TRUE]
        ELSE PairEntry(EmptyExpr, EmptyExpr)
  IN
  CASE e.e = "lit" ->
         IF reading \in Compilers THEN ReadLiteral(e, reading) ELSE SpelledLiteral(e)
    [] e.e = "ref" ->
         IF Cardinality(at) # 1 THEN IllFormed
         ELSE IF L[i].t \in {"string_def", "shared_def"} THEN Expand(L[i].a, L, reading)
         ELSE IllFormed
    [] e.e = "object_t" ->
         IF Cardinality(at) # 1 THEN IllFormed
         ELSE IF L[i].t # "object_data_pairs" THEN IllFormed
         ELSE LET ps == [j \in 1..L[i].size |-> PairOf(L[i + j])]
                  ks == [j \in 1..L[i].size |-> Expand(ps[j].a, L, reading)]
              IN IF \E j \in 1..L[i].size : ks[j].k # "string" THEN IllFormed
                 ELSE JObj([j \in 1..L[i].size |-> ks[j].s],
                           [j \in 1..L[i].size |-> Expand(ps[j].b, L, reading)])
    [] e.e = "array_t" ->
         IF Cardinality(at) # 1 THEN IllFormed
         ELSE IF L[i].t # "object_data_json" THEN IllFormed
         ELSE JArr([j \in 1..L[i].size |-> Expand(L[i + j].a, L, reading)])
    [] OTHER -> IllFormed

Done == pc = "done"

\* the one line of L that defines name
TheDefinition(L, name) == L[CHOOSE i \in DefinitionsOf(L, name) : TRUE]

RECURSIVE ExprAt(_, _, _)
\* the expression the output holds for the node at `path` below the node
\* that expression e stands for
ExprAt(e, path, L) ==
  IF path = <<>> THEN e
  ELSE LET body == IF e.e = "ref" THEN TheDefinition(L, e.name).a ELSE e
           h == CHOOSE i \in DefinitionsOf(L, body.name) : TRUE
           l == L[h + Head(path)]
           val == IF l.t = "json_entry" THEN l.a
                  ELSE IF l.t = "pair_entry" THEN l.b
                  ELSE TheDefinition(L, l.name).b
       IN ExprAt(val, Tail(path), L)

\* the entry line the output holds for pair i of the object at `path`
EntryAt(e, path, i, L) ==
  LET o == ExprAt(e, path, L)
      body == IF o.e = "ref" THEN TheDefinition(L, o.name).a ELSE o
      h == CHOOSE j \in DefinitionsOf(L, body.name) : TRUE
  IN L[h + i]

\* the expression the output holds for the key of pair i of the object at `path`
KeyExprAt(e, path, i, L) ==
  LET l == EntryAt(e, path, i, L)
  IN IF l.t = "pair_entry" THEN l.a ELSE TheDefinition(L, l.name).a

\* the expression of the document definition
DocumentExpr == lines[Len(lines)].a

---------------------------------------------------------------------------
(* The names a line refers to, and where its definition starts *)

NamesIn(e) == IF e.e \in {"ref", "object_t", "array_t"} THEN {e.name} ELSE {}

NamesUsed(l) ==
  CASE l.t = "pair_ref" -> {l.name}
    [] l.t \in {"string_def", "pair_def", "pair_entry", "json_entry", "shared_def", "document"} ->
         NamesIn(l.a) \cup NamesIn(l.b)
    [] OTHER -> {}

\* the first line of the definition that line i belongs to
DefinitionStart(L, i) ==
  IF L[i].t \in {"pair_entry", "pair_ref", "json_entry", "close"}
  THEN CHOOSE h \in 1..i :
         /\ L[h].t \in {"object_data_pairs", "object_data_json"}
         /\ \A g \in (h + 1)..i : L[g].t \notin {"object_data_pairs", "object_data_json"}
  ELSE i

---------------------------------------------------------------------------
(* C1: in results.impl, every name used inside a definition - the document *)
(* definition included - is defined on a line before that definition       *)
(* starts; nothing refers to a name defined later or never.                *)
C1_NoForwardReference ==
  \A i \in 1..Len(lines) :
    \A name \in NamesUsed(lines[i]) :
      \E j \in 1..(DefinitionStart(lines, i) - 1) : Defines(lines[j], name)

UsesPrefix(l, p) == \E name \in NamesUsed(l) : name.p = p

\* a finished output whose lines use a shared string, pair, object and an
\* object_data_ array by name
C1_Witness ==
  /\ Done
  /\ \E i \in 1..Len(lines) : UsesPrefix(lines[i], "shared_str")
  /\ \E i \in 1..Len(lines) : UsesPrefix(lines[i], "shared_pair")
  /\ \E i \in 1..Len(lines) : UsesPrefix(lines[i], "shared_obj")
  /\ \E i \in 1..Len(lines) : UsesPrefix(lines[i], "object_data")
  /\ NamesUsed(lines[Len(lines)]) # {}

---------------------------------------------------------------------------
(* C2: round trip.  When compile() is done, replacing every name in the    *)
(* document expression by its definition gives back the input tree: same   *)
(* kinds, same scalar values, same element and pair order.                 *)
C2_RoundTrip ==
  Done => \A compiler \in Compilers : Expand(DocumentExpr, lines, compiler) = doc

---------------------------------------------------------------------------
(* Occurrences in the input tree, counted by path (independently of the    *)
(* discovery pass).  A path is the sequence of child positions from the    *)
(* root.                                                                   *)

RECURSIVE PathsOf(_)
PathsOf(v) ==
  {<<>>} \cup UNION {{<<i>> \o q : q \in PathsOf(v.c[i])} : i \in 1..Len(v.c)}

RECURSIVE NodeAt(_, _)
NodeAt(v, path) == IF path = <<>> THEN v ELSE NodeAt(v.c[Head(path)], Tail(path))

\* the paths of the nodes of kind k
PathsOfKind(v, k) == {q \in PathsOf(v) : NodeAt(v, q).k = k}

\* the pairs of the tree: <<path of the object, position of the pair>>
PairsOf(v) ==
  UNION {{<<q, i>> : i \in 1..Len(NodeAt(v, q).c)} : q \in PathsOfKind(v, "object")}

PairAt(v, pr) == PairRep(NodeAt(v, pr[1]).keys[pr[2]], NodeAt(v, pr[1]).c[pr[2]])

\* how often the signature occurs among the nodes of kind k / among the pairs
Occurrences(v, k, signature) ==
  Cardinality({q \in PathsOfKind(v, k) : Dump(NodeAt(v, q)) = signature})

PairOccurrences(v, signature) ==
  Cardinality({pr \in PairsOf(v) : Dump(PairAt(v, pr)) = signature})

\* how often the content occurs as a string value or as an object key
StringOccurrences(v, str) ==
  Cardinality({q \in PathsOfKind(v, "string") : NodeAt(v, q).s = str})
    + Cardinality({pr \in PairsOf(v) : NodeAt(v, pr[1]).keys[pr[2]] = str})

---------------------------------------------------------------------------
(* What the finished output holds *)

LinesOfType(t) == {i \in 1..Len(lines) : lines[i].t = t}

\* the signature of the tree a name or object_data_ array of the output spells
SpelledSignature(e) == Dump(Expand(e, lines, "as_spelled"))

\* the signature of the pair a pair_def or pair_entry line spells
SpelledPairSignature(l) ==
  Dump(PairRep(Expand(l.a, lines, "as_spelled").s, Expand(l.b, lines, "as_spelled")))

\* the shared_def lines under prefix p that spell the signature
SharedDefsOf(p, signature) ==
  {i \in LinesOfType("shared_def") :
     lines[i].name.p = p /\ SpelledSignature(Ref(lines[i].name)) = signature}

ObjectBodiesOf(signature) ==
  {i \in LinesOfType("object_data_pairs") :
     SpelledSignature(ObjectT(lines[i].name.n)) = signature}

ArrayBodiesOf(signature) ==
  {i \in LinesOfType("object_data_json") :
     SpelledSignature(ArrayT(lines[i].name.n)) = signature}

PairDefsOf(signature) ==
  {i \in LinesOfType("pair_def") : SpelledPairSignature(lines[i]) = signature}

PairEntriesOf(signature) ==
  {i \in LinesOfType("pair_entry") : SpelledPairSignature(lines[i]) = signature}

---------------------------------------------------------------------------
(* C3: when compile() is done, every object, array and pair signature that *)
(* occurs more than once in the input has exactly one definition, under    *)
(* the name its tracker assigned, its content is written out once only,    *)
(* and every occurrence is held as that name; a signature that occurs once *)
(* has no shared_ definition and is written out in place.                  *)
C3_SharedDefinedOnce ==
  Done =>
    /\ \A q \in PathsOfKind(doc, "object") :
         LET signature == Dump(NodeAt(doc, q))
             defs == SharedDefsOf("shared_obj", signature)
         IN IF Occurrences(doc, "object", signature) > 1
            THEN /\ Cardinality(defs) = 1
                 /\ \A i \in defs :
                      /\ lines[i].name = object_tracker.signature_to_var[signature]
                      /\ Cardinality(DefinitionsOf(lines, lines[i].name)) = 1
                      /\ ExprAt(DocumentExpr, q, lines) = Ref(lines[i].name)
                 /\ Cardinality(ObjectBodiesOf(signature)) = 1
            ELSE /\ defs = {}
                 /\ ExprAt(DocumentExpr, q, lines).e = "object_t"
    /\ \A q \in PathsOfKind(doc, "array") :
         LET signature == Dump(NodeAt(doc, q))
             defs == SharedDefsOf("shared_arr", signature)
         IN IF Occurrences(doc, "array", signature) > 1
            THEN /\ Cardinality(defs) = 1
                 /\ \A i \in defs :
                      /\ lines[i].name = array_tracker.signature_to_var[signature]
                      /\ Cardinality(DefinitionsOf(lines, lines[i].name)) = 1
                      /\ ExprAt(DocumentExpr, q, lines) = Ref(lines[i].name)
                 /\ Cardinality(ArrayBodiesOf(signature)) = 1
            ELSE /\ defs = {}
                 /\ ExprAt(DocumentExpr, q, lines).e = "array_t"
    /\ \A pr \in PairsOf(doc) :
         LET signature == Dump(PairAt(doc, pr))
             defs == PairDefsOf(signature)
             entry == EntryAt(DocumentExpr, pr[1], pr[2], lines)
         IN IF PairOccurrences(doc, signature) > 1
            THEN /\ Cardinality(defs) = 1
                 /\ \A i \in defs :
                      /\ lines[i].name = pair_tracker.signature_to_var[signature]
                      /\ Cardinality(DefinitionsOf(lines, lines[i].name)) = 1
                      /\ entry = PairRefEntry(lines[i].name)
                 /\ PairEntriesOf(signature) = {}
            ELSE /\ defs = {}
                 /\ entry.t = "pair_entry"
    /\ \A i \in 1..Len(lines) :
         lines[i].name.p \in {"shared_obj", "shared_arr", "shared_pair"} =>
           lines[i].t \in {"shared_def", "pair_def", "pair_ref"}

\* a finished output with a shared object, a shared array and a shared pair,
\* and an object that occurs once
C3_Witness ==
  /\ Done
  /\ LinesOfType("pair_def") # {}
  /\ \E i, j \in LinesOfType("shared_def") :
       lines[i].name.p = "shared_obj" /\ lines[j].name.p = "shared_arr"
  /\ \E q \in PathsOfKind(doc, "object") :
       Occurrences(doc, "object", Dump(NodeAt(doc, q))) = 1

---------------------------------------------------------------------------
(* C4: when compile() is done, two sub-objects of the input that are       *)
(* identical (same keys, same key order, same values) stand behind exactly *)
(* one shared_obj_ definition and both occurrences are held as its name;   *)
(* two objects that differ only in the order of their keys have different  *)
(* signatures, are held as different expressions, and each keeps its own   *)
(* key order.                                                              *)

\* the same pairs in another order
DifferInKeyOrderOnly(x, y) ==
  /\ x # y
  /\ {<<x.keys[i], x.c[i]>> : i \in 1..Len(x.c)} = {<<y.keys[i], y.c[i]>> : i \in 1..Len(y.c)}

C4_IdenticalObjectsShared ==
  Done =>
    \A q1, q2 \in PathsOfKind(doc, "object") :
      LET x == NodeAt(doc, q1)
          y == NodeAt(doc, q2)
          e1 == ExprAt(DocumentExpr, q1, lines)
          e2 == ExprAt(DocumentExpr, q2, lines)
      IN /\ (q1 # q2 /\ x = y) =>
              /\ Cardinality(SharedDefsOf("shared_obj", Dump(x))) = 1
              /\ \A i \in SharedDefsOf("shared_obj", Dump(x)) :
                   e1 = Ref(lines[i].name) /\ e2 = Ref(lines[i].name)
         /\ DifferInKeyOrderOnly(x, y) =>
              /\ Dump(x) # Dump(y)
              /\ e1 # e2
              /\ Expand(e1, lines, "as_spelled").keys = x.keys
              /\ Expand(e2, lines, "as_spelled").keys = y.keys

\* a finished output for an input that holds an object twice and, next to
\* it, the same pairs in the other key order
C4_Witness ==
  /\ Done
  /\ \E q1, q2, q3 \in PathsOfKind(doc, "object") :
       /\ q1 # q2 /\ NodeAt(doc, q1) = NodeAt(doc, q2)
       /\ DifferInKeyOrderOnly(NodeAt(doc, q1), NodeAt(doc, q3))
       /\ ExprAt(DocumentExpr, q1, lines).e = "ref"

---------------------------------------------------------------------------
(* C5: when compile() is done, every string content that occurs more than  *)
(* once in the input - object keys and string values counted together -    *)
(* has exactly one shared_str_ definition, every key and every value of    *)
(* that content is held as its name, and no other line spells the content  *)
(* as a literal; a content that occurs once has no definition and is       *)
(* spelled as a literal in place.                                          *)

\* the string contents of the tree: values and keys
StringsOf(v) ==
  {NodeAt(v, q).s : q \in PathsOfKind(v, "string")}
    \cup {NodeAt(v, pr[1]).keys[pr[2]] : pr \in PairsOf(v)}

\* the string_def lines that spell the content
StringDefsOf(str) == {i \in LinesOfType("string_def") : lines[i].a.txt = str}

IsStringLiteralOf(e, str) == e.e = "lit" /\ e.ty = "RAW_PREFIX" /\ e.txt = str

\* the emitted expressions for the uses of the content: values and keys
StringUses(str) ==
  {ExprAt(DocumentExpr, q, lines) :
     q \in {p \in PathsOfKind(doc, "string") : NodeAt(doc, p).s = str}}
    \cup {KeyExprAt(DocumentExpr, pr[1], pr[2], lines) :
            pr \in {p \in PairsOf(doc) : NodeAt(doc, p[1]).keys[p[2]] = str}}

C5_StringsSharedOnce ==
  Done =>
    \A str \in StringsOf(doc) :
      IF StringOccurrences(doc, str) > 1
      THEN /\ Cardinality(StringDefsOf(str)) = 1
           /\ \A i \in StringDefsOf(str) :
                /\ lines[i].name = string_tracker.string_to_var[str]
                /\ Cardinality(DefinitionsOf(lines, lines[i].name)) = 1
                /\ lines[i].a = format_json_string(str)
                /\ StringUses(str) = {Ref(lines[i].name)}
           /\ \A i \in 1..Len(lines) :
                lines[i].t # "string_def" =>
                  ~IsStringLiteralOf(lines[i].a, str) /\ ~IsStringLiteralOf(lines[i].b, str)
      ELSE /\ StringDefsOf(str) = {}
           /\ StringUses(str) = {format_json_string(str)}

\* a finished output for an input where one content is a key and a value
\* (shared) and another content occurs once (inline)
C5_Witness ==
  /\ Done
  /\ \E str \in StringsOf(doc) :
       /\ \E q \in PathsOfKind(doc, "string") : NodeAt(doc, q).s = str
       /\ \E pr \in PairsOf(doc) : NodeAt(doc, pr[1]).keys[pr[2]] = str
       /\ StringDefsOf(str) # {}
  /\ \E str \in StringsOf(doc) : StringOccurrences(doc, str) = 1

---------------------------------------------------------------------------
(* C6: the four trackers count independently.  Once the discovery pass is  *)
(* over, each tracker holds, for every signature text, exactly the number  *)
(* of nodes of its own kind with that text; once the naming pass is over,  *)
(* each tracker names exactly the texts that occur more than once among    *)
(* the nodes of its own kind, under its own prefix.  A text counted for    *)
(* one kind changes nothing for another kind.                              *)

\* the map that sends each text in S to f of it
CountsOver(S, f(_)) == [x \in S |-> f(x)]

ObjectCount(x) == Occurrences(doc, "object", x)

ArrayCount(x) == Occurrences(doc, "array", x)

PairCount(x) == PairOccurrences(doc, x)

StringCount(x) == StringOccurrences(doc, x)

SignaturesOf(k) == {Dump(NodeAt(doc, q)) : q \in PathsOfKind(doc, k)}

PairSignaturesOf == {Dump(PairAt(doc, pr)) : pr \in PairsOf(doc)}

\* the texts tracker t names, each under the tracker's prefix
NamesExactly(t, S, p) ==
  /\ DOMAIN t.signature_to_var = S
  /\ \A x \in S : t.signature_to_var[x].p = p

C6_CountersPerKind ==
  /\ pc # "analyze" =>
       /\ object_tracker.counts = CountsOver(SignaturesOf("object"), ObjectCount)
       /\ array_tracker.counts = CountsOver(SignaturesOf("array"), ArrayCount)
       /\ pair_tracker.counts = CountsOver(PairSignaturesOf, PairCount)
       /\ string_tracker.string_counts = CountsOver(StringsOf(doc), StringCount)
  /\ pc \in {"insert", "emit", "done"} =>
       /\ NamesExactly(object_tracker,
                       {x \in SignaturesOf("object") : ObjectCount(x) > 1}, "shared_obj")
       /\ NamesExactly(array_tracker,
                       {x \in SignaturesOf("array") : ArrayCount(x) > 1}, "shared_arr")
       /\ NamesExactly(pair_tracker,
                       {x \in PairSignaturesOf : PairCount(x) > 1}, "shared_pair")
       /\ DOMAIN string_tracker.string_to_var = {x \in StringsOf(doc) : StringCount(x) > 1}
       /\ \A x \in DOMAIN string_tracker.string_to_var :
            string_tracker.string_to_var[x].p = "shared_str"

\* the naming pass is over for an input where one text is the signature of
\* a pair that occurs twice and of an object that occurs once: the pair is
\* named, the object is not
C6_Witness ==
  /\ pc \in {"insert", "emit", "done"}
  /\ \E x \in SignaturesOf("object") :
       /\ ObjectCount(x) = 1
       /\ PairCount(x) = 2
       /\ is_shared(pair_tracker, x)
       /\ ~is_shared(object_tracker, x)

---------------------------------------------------------------------------
(* C7: signatures are injective per node kind.  When compile() is done,    *)
(* two arrays, two objects or two pairs of the input that have the same    *)
(* signature, or that the output holds as the same shared name, are        *)
(* identical: same keys in the same order, same kind and same numeric      *)
(* subtype at every leaf.  (The signature of a subtree is a function of    *)
(* the subtree, so computing it twice gives the same text.)                *)
C7_SignatureInjective ==
  Done =>
    /\ \A k \in {"object", "array"} :
         \A q1, q2 \in PathsOfKind(doc, k) :
           LET e1 == ExprAt(DocumentExpr, q1, lines)
               e2 == ExprAt(DocumentExpr, q2, lines)
           IN (\/ Dump(NodeAt(doc, q1)) = Dump(NodeAt(doc, q2))
               \/ (e1.e = "ref" /\ e1 = e2))
                => NodeAt(doc, q1) = NodeAt(doc, q2)
    /\ \A pr1, pr2 \in PairsOf(doc) :
         LET l1 == EntryAt(DocumentExpr, pr1[1], pr1[2], lines)
             l2 == EntryAt(DocumentExpr, pr2[1], pr2[2], lines)
         IN (\/ Dump(PairAt(doc, pr1)) = Dump(PairAt(doc, pr2))
             \/ (l1.t = "pair_ref" /\ l1 = l2))
              => PairAt(doc, pr1) = PairAt(doc, pr2)

---------------------------------------------------------------------------
(* What a call of compile_dispatch has just returned, and for which node *)

\* the caller of compile_dispatch has the result and has not used it yet
Awaiting ==
  \/ pc = "emit" /\ stack = <<>>
  \/ InBody("await_pair")
  \/ InBody("await_shared_pair")
  \/ InBody("await_elem")

\* the node the result is for
Returned == IF stack = <<>> THEN doc ELSE Top.node.c[Top.i]

\* the type the literal of a number, boolean or null is tagged with
TagOf(v) ==
  CASE v.k = "float" -> "double"
    [] v.k = "unsigned" -> "std::uint64_t"
    [] v.k = "integer" -> "std::int64_t"
    [] v.k = "boolean" -> "bool"
    [] OTHER -> "std::nullptr_t"

IsPlainLeaf(v) == v.k \in {"float", "unsigned", "integer", "boolean", "null"}

---------------------------------------------------------------------------
(* C8: whenever compile_dispatch returns for a number, boolean or null,    *)
(* what it returns is a literal expression, not a name, tagged double for  *)
(* a float, std::uint64_t for an unsigned, std::int64_t for a signed       *)
(* integer, bool, or std::nullptr_t, and spelling the value of the leaf;   *)
(* and no shared definition in the output defines such a literal.          *)
C8_PlainLeavesInline ==
  /\ (Awaiting /\ IsPlainLeaf(Returned)) =>
       /\ ret.e = "lit"
       /\ ret.name = NoName
       /\ ret.ty = TagOf(Returned)
       /\ SpelledLiteral(ret) = Returned
  /\ \A i \in 1..Len(lines) :
       lines[i].t \in {"string_def", "shared_def"} =>
         ~(lines[i].a.e = "lit" /\ lines[i].a.ty # "RAW_PREFIX")

\* the second of two equal numbers of an array has just been returned
C8_Witness ==
  /\ InBody("await_elem")
  /\ Top.i = 2
  /\ Top.node.c[1] = Top.node.c[2]
  /\ Returned.k \in {"float", "unsigned", "integer"}
  /\ ret.e = "lit"

---------------------------------------------------------------------------
(* The Value view: basic_json::get<Type>() *)

Thrown == [thrown |-> TRUE, value |-> 0]

Got(x) == [thrown |-> FALSE, value |-> x]

\* Type(x) for an integer type of IntBits bits: x modulo 2^IntBits
Cast(Type, x) ==
  LET m == x % TwoTo(IntBits)
  IN IF Type = "std::uint64_t" THEN m
     ELSE IF m > IntMax THEN m - TwoTo(IntBits) ELSE m

\* Type(*data.get_if_..()) of the number branch; a double is its number of
\* halves, a double result likewise
Number(Type, data) ==
  IF data.k = "float"
  THEN IF Type = "double" THEN data.n ELSE Cast(Type, data.n \div 2)
  ELSE IF Type = "double" THEN 2 * data.n ELSE Cast(Type, data.n)

\* mutant: bool is read from a number as well
get_BoolOfNumber(Type, data) ==
  IF Type \in {"std::uint64_t", "std::int64_t", "double"}
  THEN IF data.k \in {"unsigned", "integer", "float"} THEN Got(Number(Type, data)) ELSE Thrown
  ELSE IF Type \in {"std::string_view", "std::string"}
  THEN IF data.k = "string" THEN Got(data.s) ELSE Thrown
  ELSE IF Type = "bool"
  THEN IF data.k \in {"boolean", "unsigned", "integer"} THEN Got(data.n = 1) ELSE Thrown
  ELSE IF Type = "std::nullptr_t"
  THEN IF data.k = "null" THEN Got("nullptr") ELSE Thrown
  ELSE Thrown

\* data: the data_variant of the Value, the one an emitted literal
\* constructs included (selected is the node kind)
get(Type, data) ==
  IF Type \in {"std::uint64_t", "std::int64_t", "double"}
  THEN IF data.k = "unsigned" THEN Got(Number(Type, data))
       ELSE IF data.k = "integer" THEN Got(Number(Type, data))
       ELSE IF data.k = "float" THEN Got(Number(Type, data))
       ELSE Thrown
  ELSE IF Type \in {"std::string_view", "std::string"}
  THEN IF data.k = "string" THEN Got(data.s) ELSE Thrown
  ELSE IF Type = "bool"
  THEN IF data.k = "boolean" THEN Got(data.n = 1) ELSE Thrown
  ELSE IF Type = "std::nullptr_t"
  THEN IF data.k = "null" THEN Got("nullptr") ELSE Thrown
  ELSE Thrown

---------------------------------------------------------------------------
(* C9: whenever compile_dispatch returns for a negative integer n, what it *)
(* returns is std::int64_t{n}, every compiler accepts it, and              *)
(* get<std::int64_t>() on the Value it constructs returns n; whenever it   *)
(* returns for an unsigned integer n, what it returns is std::uint64_t{n}, *)
(* every compiler accepts it, and get<std::int64_t>() returns n.           *)
C9_IntegersReadBack ==
  Awaiting =>
    /\ (Returned.k = "integer" /\ Returned.n < 0) =>
         /\ ret = Literal("std::int64_t", FormatInteger(Returned.n))
         /\ \A compiler \in Compilers :
              /\ ReadLiteral(ret, compiler) # IllFormed
              /\ get("std::int64_t", ReadLiteral(ret, compiler)) = Got(Returned.n)
    /\ Returned.k = "unsigned" =>
         /\ ret = Literal("std::uint64_t", FormatInteger(Returned.n))
         /\ \A compiler \in Compilers :
              /\ ReadLiteral(ret, compiler) # IllFormed
              /\ get("std::int64_t", ReadLiteral(ret, compiler)) = Got(Returned.n)

---------------------------------------------------------------------------
(* C10: compile() terminates for every input; when it is done the last     *)
(* line of the output is the one `document` definition, its expression is  *)
(* what compile_dispatch returned for the top-level node and spells the    *)
(* whole input; compile_dispatch never returns `unhandled`, and no line    *)
(* holds it.                                                               *)

AllExprs == {lines[i].a : i \in 1..Len(lines)} \cup {lines[i].b : i \in 1..Len(lines)}

DocumentLast ==
  /\ lines # <<>>
  /\ LinesOfType("document") = {Len(lines)}
  /\ lines[Len(lines)] = DocumentLine(ret)
  /\ stack = <<>>
  /\ SpelledSignature(DocumentExpr) = Dump(doc)

C10_Terminates ==
  /\ <>Done
  /\ [](Done => DocumentLast)
  /\ [](ret # Unhandled /\ Unhandled \notin AllExprs)

\* a finished output for an input three levels deep whose document
\* expression wraps an object_data_ array
C10_Witness ==
  /\ Done
  /\ DocumentLast
  /\ \E q \in PathsOf(doc) : Len(q) = 3
  /\ DocumentExpr.e \in {"object_t", "array_t"}


---------------------------------------------------------------------------
(* compile() called again and again in one process                         *)

\* most compile() calls of one process
MaxCalls == 3

\* the documents compiled in a row: each shares something, or nothing
CallDocs ==
  {JUInt(0),
   JArr(<<JStr(KeyA), JStr(KeyA)>>),
   JObj(<<KeyA, KeyB>>, <<JObj(<<KeyA, KeyB>>, <<JUInt(0), JUInt(0)>>),
                          JObj(<<KeyA, KeyB>>, <<JUInt(0), JUInt(0)>>)>>),
   JArr(<<JObj(<<KeyA>>, <<JUInt(0)>>), JObj(<<KeyA, KeyB>>, <<JUInt(0), JUInt(0)>>)>>),
   JArr(<<JArr(<<JUInt(0)>>), JArr(<<JUInt(0)>>)>>)}

\* what a finished call leaves behind for its caller to see
Results ==
  [doc |-> doc, lines |-> lines,
   strings |-> string_tracker.string_to_var,
   objects |-> object_tracker.signature_to_var,
   arrays |-> array_tracker.signature_to_var,
   pairs |-> pair_tracker.signature_to_var]

\* return results; the four trackers go out of scope
Return ==
  /\ pc = "done"
  /\ Len(finished) < MaxCalls
  /\ finished' = Append(finished, Results)
  /\ pc' = "returned"
  /\ UNCHANGED <<doc, string_tracker, object_tracker, array_tracker, pair_tracker,
                 lines, obj_count, stack, ret, json, result>>

\* mutant: the string tracker outlives the call
Call_KeepStrings ==
  /\ pc = "returned"
  /\ Len(finished) < MaxCalls
  /\ doc' \in CallDocs
  /\ object_tracker' = NewDuplicateTracker("obj")
  /\ array_tracker' = NewDuplicateTracker("arr")
  /\ pair_tracker' = NewDuplicateTracker("pair")
  /\ lines' = <<>>
  /\ pc' = "analyze"
  /\ UNCHANGED <<string_tracker, obj_count, stack, ret, outside>>

\* compile(document_name, json) is entered: the trackers and the results
\* are constructed anew; obj_count is not declared yet
Call ==
  /\ pc = "returned"
  /\ Len(finished) < MaxCalls
  /\ doc' \in CallDocs
  /\ string_tracker' = NewStringTracker
  /\ object_tracker' = NewDuplicateTracker("obj")
  /\ array_tracker' = NewDuplicateTracker("arr")
  /\ pair_tracker' = NewDuplicateTracker("pair")
  /\ lines' = <<>>
  /\ pc' = "analyze"
  /\ UNCHANGED <<obj_count, stack, ret, outside>>

CallsInit == Init /\ doc \in CallDocs

CallsNext == Next \/ Return \/ Call

CallsSpec == CallsInit /\ [][CallsNext]_vars

\* two name maps number the keys they share in the same relative order
SameOrder(m1, m2) ==
  \A x, y \in DOMAIN m1 \cap DOMAIN m2 : (m1[x].n < m1[y].n) <=> (m2[x].n < m2[y].n)

\* the hash maps of two calls enumerated their keys alike, as they do when
\* the same insertions built them
SameIteration(r1, r2) ==
  /\ SameOrder(r1.strings, r2.strings)
  /\ SameOrder(r1.objects, r2.objects)
  /\ SameOrder(r1.arrays, r2.arrays)
  /\ SameOrder(r1.pairs, r2.pairs)

---------------------------------------------------------------------------
(* C11: compile() keeps no state between calls: a document compiled after  *)
(* any other documents gets exactly the output it gets when compiled       *)
(* first: the same lines in the same order and the same shared names.      *)

C11_NoStateBetweenCalls ==
  \A i, j \in 1..Len(finished) :
    (i < j /\ finished[i].doc = finished[j].doc /\ SameIteration(finished[i], finished[j]))
      => finished[j] = finished[i]

\* the document with two shared strings and two shared pairs was compiled
\* first and third, a document with a shared array in between, and the
\* names were given in the same order both times
C11_Witness ==
  /\ Len(finished) = 3
  /\ finished[3].doc = finished[1].doc
  /\ Cardinality(DOMAIN finished[1].strings) = 2
  /\ Cardinality(DOMAIN finished[1].pairs) = 2
  /\ DOMAIN finished[2].arrays # {}
  /\ SameIteration(finished[1], finished[3])
  /\ finished[3].lines = finished[1].lines

---------------------------------------------------------------------------
(* The Value view: basic_json of include/json2cpp/json2cpp.hpp.  A Value   *)
(* is a record like a node of the input: k is data.selected, keys and c    *)
(* are the pairs of an object in storage order (a key may repeat), c the   *)
(* elements of an array.                                                   *)

\* basic_json{} : data.selected is selected_type::empty
Empty == Node("empty", 0, <<>>, <<>>, <<>>)

\* basic_json{data_t{binary_t{}}}
Binary == Node("binary", 0, <<>>, <<>>, <<>>)

\* the elements and pair values of the Values inspected
ViewItems == {JNull, JUInt(0), JUInt(1), JStr(KeyA)}

ViewLeaves ==
  {Empty, Binary, JNull, JBool(TRUE), JBool(FALSE), JInt(0 - 1), JUInt(1), JFloat(3),
   JStr(<<>>), JStr(KeyA), JStr(<<"a", "b">>)}

\* the Values inspected: leaves of every tag, arrays, and objects whose
\* keys may repeat
Values ==
  ViewLeaves \cup ArraysOver(ViewItems, MaxWidth)
    \cup UNION {{JObj(ks, c) : c \in [1..Len(ks) -> ViewItems]} : ks \in SeqsUpTo(Keys, MaxWidth)}

is_binary(v) == v.k = "binary"

is_structured(v) == is_object(v) \/ is_array(v)

is_primitive(v) == is_null(v) \/ is_string(v) \/ is_boolean(v) \/ is_number(v) \/ is_binary(v)

\* throw std::runtime_error(what)
Throw(what) == [thrown |-> TRUE, value |-> what]

\* the process is ended by a read of memory it does not own
Crash == [thrown |-> FALSE, crashed |-> TRUE]

size(v) ==
  IF is_null(v) THEN 0
  ELSE IF is_object(v) THEN Len(v.c)
  ELSE IF is_array(v) THEN Len(v.c)
  ELSE 1

empty(v) == size(v) = 0

\* *(begin_ + index) with index past the end of the span: the read is not
\* checked, it finds whatever lies behind the sequence or ends the process
BeyondSpan == {Got(g) : g \in ViewItems \cup {Empty}} \cup {Crash}

\* operator[](idx): the outcomes; array_data()[idx] throws nothing, so the
\* handler for std::out_of_range is never entered
Subscript(v, idx) ==
  IF is_array(v)
  THEN IF idx < Len(v.c) THEN {Got(v.c[idx + 1])} ELSE BeyondSpan
  ELSE {Throw("value is not an array type")}

\* the finder of at(): the position of the first pair from i on whose key
\* is key, or children.end()
RECURSIVE finder(_, _, _)
finder(v, key, i) ==
  IF i > Len(v.c) THEN Len(v.c) + 1
  ELSE IF v.keys[i] = key THEN i
  ELSE finder(v, key, i + 1)

\* mutant: the search runs from the back
at_Last(v, key) ==
  IF is_object(v)
  THEN LET found == {i \in 1..Len(v.c) : v.keys[i] = key}
       IN IF found # {}
          THEN Got(v.c[CHOOSE i \in found : \A j \in found : j <= i])
          ELSE Throw("Key not found")
  ELSE Throw("value is not an object type")

\* at(key), and operator[](key) which returns at(key)
at(v, key) ==
  IF is_object(v)
  THEN LET obj == finder(v, key, 1)
       IN IF obj # Len(v.c) + 1
          THEN Got(v.c[obj])
          ELSE Throw("Key not found")
  ELSE Throw("value is not an object type")

\* an iterator is its index_; its parent_value_ is the Value inspected
begin(v) == 0

end(v) == size(v)

\* mutant: the key is read at the first pair
key_OfFirst(v, index) ==
  IF is_object(v)
  THEN Got(v.keys[1])
  ELSE Throw("json value is not an object, it has no key")

\* iterator::key()
key(v, index) ==
  IF is_object(v)
  THEN Got(v.keys[index + 1])
  ELSE Throw("json value is not an object, it has no key")

\* the loop of find() from itr on
RECURSIVE FindLoop(_, _, _)
FindLoop(v, k, itr) ==
  IF itr = end(v) THEN Got(end(v))
  ELSE IF key(v, itr).thrown THEN key(v, itr)
  ELSE IF key(v, itr).value = k THEN Got(itr)
  ELSE FindLoop(v, k, itr + 1)

\* mutant: on an object the last pair with the key is found
find_Last(v, k) ==
  LET found == {i \in 1..Len(v.keys) : v.keys[i] = k}
  IN IF is_object(v) /\ found # {}
     THEN Got((CHOOSE i \in found : \A j \in found : j <= i) - 1)
     ELSE FindLoop(v, k, begin(v))

find(v, k) == FindLoop(v, k, begin(v))

\* mutant: what find() returns is not compared with end()
count_Found(v, k) ==
  IF is_object(v) THEN Got(1) ELSE Got(0)

\* count(key): 1 or 0, by find() on an object, 0 on everything else
count(v, k) ==
  IF is_object(v)
  THEN LET found == find(v, k)
       IN IF found.thrown THEN found
          ELSE IF found.value = end(v) THEN Got(0) ELSE Got(1)
  ELSE Got(0)

\* mutant: an array yields the parent in place of its elements
Star_Parent(v, index) ==
  IF is_object(v) THEN {Got(v.c[index + 1])} ELSE {Got(v)}

\* iterator::operator*: the outcomes for an iterator before end()
Star(v, index) ==
  IF is_array(v) THEN Subscript(v, index)
  ELSE IF is_object(v) THEN {Got(v.c[index + 1])}
  ELSE {Got(v)}

---------------------------------------------------------------------------
(* Member functions called on a Value, one call after another *)

\* the Types get<Type>() is instantiated with; int stands for every Type
\* without a branch of its own
Types ==
  {"std::uint64_t", "std::int64_t", "double", "std::string_view", "std::string",
   "bool", "std::nullptr_t", "int"}

\* a member call and what came of it
Called(op, arg, out) == [op |-> op, arg |-> arg, out |-> out]

\* the compile() state, which no member of the Value view touches
aside == <<doc, pc, string_tracker, object_tracker, array_tracker, pair_tracker,
           lines, obj_count, stack, ret, finished>>

\* a Value is constructed
Construct ==
  /\ json' \in Values
  /\ result' = NoResult
  /\ UNCHANGED aside

Size ==
  /\ json # NoValue
  /\ result' = Called("size", "", size(json))
  /\ UNCHANGED <<json, aside>>

IsEmpty ==
  /\ json # NoValue
  /\ result' = Called("empty", "", empty(json))
  /\ UNCHANGED <<json, aside>>

\* json[idx]
SubscriptIndex ==
  /\ json # NoValue
  /\ \E idx \in 0..(MaxWidth + 1) : \E out \in Subscript(json, idx) :
       result' = Called("[]", idx, out)
  /\ UNCHANGED <<json, aside>>

\* json.at(k), json[k]
At ==
  /\ json # NoValue
  /\ \E k \in Keys : result' = Called("at", k, at(json, k))
  /\ UNCHANGED <<json, aside>>

Find ==
  /\ json # NoValue
  /\ \E k \in Keys : result' = Called("find", k, find(json, k))
  /\ UNCHANGED <<json, aside>>

Count ==
  /\ json # NoValue
  /\ \E k \in Keys : result' = Called("count", k, count(json, k))
  /\ UNCHANGED <<json, aside>>

\* it.key() for the iterator a loop from begin() has reached; on an
\* object the loop has not reached end()
KeyAt ==
  /\ json # NoValue
  /\ result.op \in {"begin", "++"}
  /\ is_object(json) => result.arg # end(json)
  /\ result' = Called("key", result.arg, key(json, result.arg))
  /\ UNCHANGED <<json, aside>>

Get ==
  /\ json # NoValue
  /\ \E Type \in Types : result' = Called("get", Type, get(Type, json))
  /\ UNCHANGED <<json, aside>>

\* is_structured(), is_primitive(), is_number()
Classify ==
  /\ json # NoValue
  /\ result' = Called("is_", "",
                      [structured |-> is_structured(json),
                       primitive |-> is_primitive(json),
                       number |-> is_number(json)])
  /\ UNCHANGED <<json, aside>>

\* auto it = json.begin(): nothing has been yielded
Begin ==
  /\ json # NoValue
  /\ result' = Called("begin", begin(json), <<>>)
  /\ UNCHANGED <<json, aside>>

\* it != json.end(), so *it is taken and ++it follows
Advance ==
  /\ json # NoValue
  /\ result.op \in {"begin", "++"}
  /\ result.arg # end(json)
  /\ \E out \in Star(json, result.arg) :
       result' = Called("++", result.arg + 1, Append(result.out, out))
  /\ UNCHANGED <<json, aside>>

ViewInit == Init /\ doc = JNull

ViewNext ==
  \/ Construct
  \/ Size
  \/ IsEmpty
  \/ SubscriptIndex
  \/ At
  \/ Find
  \/ Count
  \/ KeyAt
  \/ Get
  \/ Classify
  \/ Begin
  \/ Advance

ViewSpec == ViewInit /\ [][ViewNext]_vars

\* the call returned x
Returns(out, x) == ~out.thrown /\ DOMAIN out = {"thrown", "value"} /\ out.value = x

\* the call threw std::runtime_error(what)
Throws(out, what) == out.thrown /\ out.value = what

---------------------------------------------------------------------------
(* C12: size() returns 0 for null, the element count for an array, the     *)
(* pair count for an object, the string length for a string and 1 for      *)
(* every other scalar; empty() is true exactly when size() is 0.           *)

C12_SizeByKind ==
  /\ result.op = "size" =>
       result.out = (IF is_null(json) THEN 0
                     ELSE IF is_array(json) \/ is_object(json) THEN Len(json.c)
                     ELSE IF is_string(json) THEN Len(json.s)
                     ELSE 1)
  /\ result.op = "empty" => (result.out <=> size(json) = 0)

---------------------------------------------------------------------------
(* C13: operator[](i) returns the element at i of an array and the value   *)
(* of the pair at i of an object, fails with an out-of-range error         *)
(* whenever i >= size(), and fails with a type-mismatch error when the     *)
(* value is neither array nor object; it never reads outside the backing   *)
(* sequence.                                                               *)

C13_IndexedAccess ==
  result.op = "[]" =>
    IF is_array(json) \/ is_object(json)
    THEN IF result.arg < size(json)
         THEN Returns(result.out, json.c[result.arg + 1])
         ELSE Throws(result.out, "index out of range")
    ELSE Throws(result.out, "value is not an array type")

---------------------------------------------------------------------------
(* C14: at(key) / operator[](key) on an object returns the value of the    *)
(* first pair in storage order whose key equals key, also when keys are    *)
(* duplicated; it fails with a not-found error when no pair has the key    *)
(* and with a type-mismatch error when the value is not an object.         *)

\* the positions of the pairs of v whose key is k
Matches(v, k) == {i \in 1..Len(v.keys) : v.keys[i] = k}

First(S) == CHOOSE i \in S : \A j \in S : i <= j

C14_KeyedAccess ==
  result.op = "at" =>
    IF is_object(json)
    THEN IF Matches(json, result.arg) # {}
         THEN Returns(result.out, json.c[First(Matches(json, result.arg))])
         ELSE Throws(result.out, "Key not found")
    ELSE Throws(result.out, "value is not an object type")

\* at(key) on an object holding key twice with different values returned
\* the first of them
C14_Witness ==
  /\ result.op = "at"
  /\ is_object(json)
  /\ json.keys = <<result.arg, result.arg>>
  /\ json.c[1] # json.c[2]
  /\ Returns(result.out, json.c[1])

---------------------------------------------------------------------------
(* C15: find(key) never raises an error, for any Value and any key, an     *)
(* array or a scalar included: it returns an iterator to the first pair    *)
(* whose key is key, or end() when no pair has that key.                   *)

C15_FindNeverThrows ==
  result.op = "find" =>
    /\ ~result.out.thrown
    /\ result.out.value =
         (IF is_object(json) /\ Matches(json, result.arg) # {}
          THEN First(Matches(json, result.arg)) - 1
          ELSE end(json))

---------------------------------------------------------------------------
(* C16: get<T>() succeeds exactly when T is int64, uint64 or double and    *)
(* the tag is Integer, UInteger or Float, or T is a string type and the    *)
(* tag is String, or T is bool and the tag is Boolean, or T is nullptr_t   *)
(* and the tag is Null; in every other combination it fails with a         *)
(* type-mismatch error.                                                    *)

Accepted(Type, tag) ==
  \/ Type \in {"std::uint64_t", "std::int64_t", "double"} /\ tag \in {"integer", "unsigned", "float"}
  \/ Type \in {"std::string_view", "std::string"} /\ tag = "string"
  \/ Type = "bool" /\ tag = "boolean"
  \/ Type = "std::nullptr_t" /\ tag = "null"

C16_GetByTag ==
  result.op = "get" => (result.out.thrown <=> ~Accepted(result.arg, json.k))

\* get<bool>() on an unsigned number has thrown
C16_Witness ==
  /\ result.op = "get"
  /\ result.arg = "bool"
  /\ json.k = "unsigned"
  /\ result.out.thrown

---------------------------------------------------------------------------
(* C17: the number of increments from begin() to end() equals size(): a    *)
(* null Value has begin() == end(), a non-null scalar yields itself once,  *)
(* an array yields each element once and an object each pair's value once, *)
(* in storage order.                                                       *)

\* what a loop from begin() to end() is to yield
Yield(v) ==
  IF is_null(v) THEN <<>>
  ELSE IF is_array(v) \/ is_object(v) THEN [i \in 1..Len(v.c) |-> Got(v.c[i])]
  ELSE <<Got(v)>>

C17_IterationMatchesSize ==
  result.op \in {"begin", "++"} =>
    /\ result.arg = Len(result.out)
    /\ result.arg <= size(json)
    /\ (result.op = "begin" /\ is_null(json)) => result.arg = end(json)
    /\ result.arg = end(json) =>
         /\ Len(result.out) = size(json)
         /\ result.out = Yield(json)

\* the loop over an array of two different elements has reached end()
C17_Witness ==
  /\ result.op = "++"
  /\ result.arg = end(json)
  /\ is_array(json)
  /\ Len(json.c) = 2
  /\ json.c[1] # json.c[2]
  /\ result.out = <<Got(json.c[1]), Got(json.c[2])>>

---------------------------------------------------------------------------
(* C18: every Value that can be constructed satisfies exactly one of       *)
(* is_structured() and is_primitive(): is_structured() holds iff the tag   *)
(* is array or object, is_primitive() for every other tag; is_number()     *)
(* holds iff the tag is signed integer, unsigned integer or float.         *)

C18_StructuredOrPrimitive ==
  result.op = "is_" =>
    /\ result.out.structured <=> json.k \in {"array", "object"}
    /\ result.out.primitive <=> json.k \notin {"array", "object"}
    /\ result.out.structured # result.out.primitive
    /\ result.out.number <=> json.k \in {"integer", "unsigned", "float"}

---------------------------------------------------------------------------
(* The short-string revisions: StringStorage of part_003 and the packed    *)
(* type_and_length_ of part_004.  The union of short_data and long_data is *)
(* a record of what each member reads: when long_data is written, the      *)
(* characters short_data reads are the bytes of the pointer.               *)

\* width of std::size_t, scaled down from 64
SizeBits == 7

\* sizeof(CharType *) / sizeof(CharType), scaled down from 8
capacity == 2

TYPE_SHIFT == SizeBits - 4

LENGTH_MASK == TwoTo(TYPE_SHIFT) - 1

\* enum class Type : uint8_t, by position
TypeCode ==
  [Null |-> 0, Boolean |-> 1, Array |-> 2, Object |-> 3,
   Integer |-> 4, UInteger |-> 5, Float |-> 6, String |-> 7]

\* the character of a value-initialised CharType
NUL == "nul"

\* n characters: a .. a, or a .. a b
Text(n, last) == [i \in 1..n |-> IF i = n THEN last ELSE "a"]

\* the contents a string Value is constructed from and compared with:
\* every length up to two past LENGTH_MASK
Texts == {<<>>} \cup {Text(n, last) : n \in 1..(LENGTH_MASK + 2), last \in {"a", "b"}}

\* what the bytes of a pointer read as characters
PointerBytes == [1..capacity -> {"a", NUL}]

\* std::copy_n(sv.begin(), len, short_data.begin()) into the zeroed array
Inline(sv) == [i \in 1..capacity |-> IF i <= Len(sv) THEN sv[i] ELSE NUL]

\* part_003: StringStorage(sv); bytes is what sv.data() reads as characters
StringStorage(sv, bytes) ==
  IF Len(sv) <= capacity
  THEN [short_data |-> Inline(sv), long_data |-> <<>>, length |-> Len(sv)]
  ELSE [short_data |-> bytes, long_data |-> sv, length |-> Len(sv)]

\* part_003: StringStorage::get()
StorageGet(st) ==
  IF st.length <= capacity
  THEN SubSeq(st.short_data, 1, st.length)
  ELSE SubSeq(st.long_data, 1, st.length)

\* part_004: set_type_and_length(t, len)
\* mutant: the length is not masked
set_type_and_length_Unmasked(t, len) ==
  (TypeCode[t] * TwoTo(TYPE_SHIFT) + len) % TwoTo(SizeBits)

set_type_and_length(t, len) ==
  (TypeCode[t] * TwoTo(TYPE_SHIFT) + (len % (LENGTH_MASK + 1))) % TwoTo(SizeBits)

type(v) == v.type_and_length_ \div TwoTo(TYPE_SHIFT)

length(v) == v.type_and_length_ % (LENGTH_MASK + 1)

\* part_004: string_data(), with the length() characters it is read for
string_data(v) ==
  IF length(v) <= capacity
  THEN SubSeq(v.data_.short_data, 1, length(v))
  ELSE SubSeq(v.data_.long_data, 1, length(v))

\* part_003: basic_json(std::basic_string_view<CharType> v); sv keeps the
\* content the Value was constructed from
StoredString(sv, bytes) ==
  [rev |-> "part_003", sv |-> sv, value_type |-> "String",
   string_value |-> StringStorage(sv, bytes)]

\* part_004: basic_json(std::basic_string_view<CharType> v)
PackedString(sv, bytes) ==
  [rev |-> "part_004", sv |-> sv,
   type_and_length_ |-> set_type_and_length("String", Len(sv)),
   data_ |-> IF Len(sv) <= capacity
             THEN [short_data |-> Inline(sv), long_data |-> <<>>]
             ELSE [short_data |-> bytes, long_data |-> sv]]

\* part_004: the constructors of the other types; a span of len elements
\* for an array or object, the bytes of the member written
PackedOther(t, len, bytes) ==
  [rev |-> "part_004", sv |-> <<>>,
   type_and_length_ |-> set_type_and_length(t, len),
   data_ |-> [short_data |-> bytes, long_data |-> <<>>]]

is_packed_string(v) == type(v) = TypeCode["String"]

\* getString() of either revision
getString(v) ==
  IF v.rev = "part_003"
  THEN IF v.value_type = "String" THEN Got(StorageGet(v.string_value)) ELSE Throw("Not a string")
  ELSE IF is_packed_string(v) THEN Got(string_data(v)) ELSE Throw("Not a string")

\* size() of either revision
string_size(v) ==
  IF v.rev = "part_003"
  THEN v.string_value.length
  ELSE IF type(v) \in {TypeCode["Array"], TypeCode["Object"], TypeCode["String"]}
  THEN length(v)
  ELSE IF type(v) = TypeCode["Null"] THEN 0 ELSE 1

\* mutant: the tag is not looked at
Equals_AnyTag(v, other) == string_data(v) = other

\* part_004: operator==(std::basic_string_view<CharType> other)
Equals(v, other) ==
  IF ~is_packed_string(v) THEN FALSE
  ELSE string_data(v) = other

---------------------------------------------------------------------------
(* String Values constructed and read back, one call after another *)

ConstructStored ==
  /\ \E sv \in Texts : \E bytes \in PointerBytes : json' = StoredString(sv, bytes)
  /\ result' = NoResult
  /\ UNCHANGED aside

ConstructPacked ==
  /\ \E sv \in Texts : \E bytes \in PointerBytes : json' = PackedString(sv, bytes)
  /\ result' = NoResult
  /\ UNCHANGED aside

ConstructOther ==
  /\ \E t \in DOMAIN TypeCode \ {"String"} : \E bytes \in PointerBytes :
       \E len \in (IF t \in {"Array", "Object"} THEN 0..capacity ELSE {0}) :
         json' = PackedOther(t, len, bytes)
  /\ result' = NoResult
  /\ UNCHANGED aside

GetString ==
  /\ json # NoValue
  /\ result' = Called("getString", "", getString(json))
  /\ UNCHANGED <<json, aside>>

StringSize ==
  /\ json # NoValue
  /\ result' = Called("size", "", string_size(json))
  /\ UNCHANGED <<json, aside>>

\* json == other
EqualsString ==
  /\ json # NoValue
  /\ json.rev = "part_004"
  /\ \E other \in Texts : result' = Called("==", other, Equals(json, other))
  /\ UNCHANGED <<json, aside>>

StringNext ==
  \/ ConstructStored
  \/ ConstructPacked
  \/ ConstructOther
  \/ GetString
  \/ StringSize
  \/ EqualsString

StringSpec == ViewInit /\ [][StringNext]_vars

---------------------------------------------------------------------------
(* C19: in the short-string revisions a string Value constructed from      *)
(* content s reads back as s unchanged, for every length, in particular    *)
(* for length == capacity (stored inline) and length == capacity + 1       *)
(* (stored by reference), and size() is the length of s.                   *)

\* json was constructed from a string
IsStringValue == json # NoValue /\ (json.rev = "part_003" \/ is_packed_string(json))

C19_StringReadsBack ==
  IsStringValue =>
    /\ result.op = "getString" => Returns(result.out, json.sv)
    /\ result.op = "size" => result.out = Len(json.sv)

---------------------------------------------------------------------------
(* C20: in part_004, Value == s is true iff the Value has the String tag   *)
(* and its content equals s character for character, whether the content   *)
(* is stored inline or by reference; it is false for every Value that is   *)
(* not a string.  The content is what getString() returns, which is what   *)
(* the Value was constructed from when that is no longer than LENGTH_MASK. *)

C20_EqualsString ==
  result.op = "==" =>
    /\ ~is_packed_string(json) => ~result.out
    /\ is_packed_string(json) => (result.out <=> getString(json).value = result.arg)
    /\ (is_packed_string(json) /\ Len(json.sv) <= LENGTH_MASK) =>
         (result.out <=> json.sv = result.arg)

\* a Value holding capacity + 1 characters by reference has been found
\* equal to its content
C20_Witness ==
  /\ result.op = "=="
  /\ is_packed_string(json)
  /\ Len(json.sv) = capacity + 1
  /\ json.data_.long_data = json.sv
  /\ result.arg = json.sv
  /\ result.out

---------------------------------------------------------------------------
(* C21: an empty array Value has size() 0 and begin() == end(); an empty   *)
(* object Value has size() 0, and find and count report every key as       *)
(* absent without raising.  (This header declares no contains.)            *)

C21_EmptyContainers ==
  /\ json = JArr(<<>>) =>
       /\ result.op = "size" => result.out = 0
       /\ result.op = "empty" => result.out
       /\ result.op = "begin" => result.arg = end(json)
  /\ json = JObj(<<>>, <<>>) =>
       /\ result.op = "size" => result.out = 0
       /\ result.op = "begin" => result.arg = end(json)
       /\ result.op = "find" => Returns(result.out, end(json))
       /\ result.op = "count" => Returns(result.out, 0)

\* count() on the empty object has returned 0
C21_Witness ==
  /\ json = JObj(<<>>, <<>>)
  /\ result.op = "count"
  /\ Returns(result.out, 0)

---------------------------------------------------------------------------
(* find and contains of the revisions part_005 and part_003.  In part_005  *)
(* an iterator is its index_ (its type and parent are the Value's); in     *)
(* part_003 it is a pointer into the span, here its kind and position.     *)

\* the Values the revisions construct: every tag but empty and binary
RevisionValues == Values \ {Empty, Binary}

end_005(v) ==
  IF is_array(v) THEN Len(v.c)
  ELSE IF is_object(v) THEN Len(v.c)
  ELSE 1

find_005(v, k) ==
  IF is_object(v) /\ finder(v, k, 1) # Len(v.c) + 1
  THEN finder(v, k, 1) - 1
  ELSE end_005(v)

\* mutant: the search is the loop over begin() .. end() calling key()
contains_005_ByKey(v, k) ==
  IF find(v, k).thrown THEN find(v, k) ELSE Got(find(v, k).value # end(v))

contains_005(v, k) == Got(find_005(v, k) # end_005(v))

Pointer(kind, to) == [kind |-> kind, to |-> to]

end_003(v) ==
  IF is_array(v) THEN Pointer("Array", Len(v.c) + 1)
  ELSE IF is_object(v) THEN Pointer("Object", Len(v.c) + 1)
  ELSE Pointer("Array", 0)

find_003(v, k) ==
  IF ~is_object(v) THEN end_003(v)
  ELSE IF finder(v, k, 1) # Len(v.c) + 1 THEN Pointer("Object", finder(v, k, 1))
  ELSE end_003(v)

contains_003(v, k) ==
  IF ~is_object(v) THEN Got(FALSE)
  ELSE Got(find_003(v, k) # end_003(v))

ConstructRevision ==
  /\ json' \in RevisionValues
  /\ result' = NoResult
  /\ UNCHANGED aside

Contains005 ==
  /\ json # NoValue
  /\ \E k \in Keys : result' = Called("part_005::contains", k, contains_005(json, k))
  /\ UNCHANGED <<json, aside>>

Contains003 ==
  /\ json # NoValue
  /\ \E k \in Keys : result' = Called("part_003::contains", k, contains_003(json, k))
  /\ UNCHANGED <<json, aside>>

RevisionNext == ConstructRevision \/ Contains005 \/ Contains003

RevisionSpec == ViewInit /\ [][RevisionNext]_vars

---------------------------------------------------------------------------
(* C22: contains(key) may be called on an array Value and on any other     *)
(* Value that is not an object: it returns false for every key and never   *)
(* raises.  On an object it tells whether a pair has the key.              *)

C22_ContainsOnAnyValue ==
  result.op \in {"part_005::contains", "part_003::contains"} =>
    IF is_object(json)
    THEN Returns(result.out, Matches(json, result.arg) # {})
    ELSE Returns(result.out, FALSE)

\* contains() on an array of two elements has returned false
C22_Witness ==
  /\ result.op = "part_005::contains"
  /\ is_array(json)
  /\ Len(json.c) = 2
  /\ Returns(result.out, FALSE)

---------------------------------------------------------------------------
(* C23: when compile_dispatch is called with an array or object whose      *)
(* signature is shared and already marked processed, it returns the shared *)
(* name and changes nothing else: no line is appended, obj_count and the   *)
(* four trackers stay as they are; likewise generate_node_body at a shared *)
(* pair already processed takes its name and makes no call for its value.  *)

\* t has named the signature and has seen it emitted
NamedAndEmitted(t, signature) ==
  signature \in DOMAIN t.signature_to_var /\ signature \in t.processed_signatures

\* compile_dispatch has been called with a structure emitted before
MetAgain ==
  /\ InDispatch("call")
  /\ \/ is_object(Top.node) /\ NamedAndEmitted(object_tracker, Dump(Top.node))
     \/ is_array(Top.node) /\ NamedAndEmitted(array_tracker, Dump(Top.node))

\* generate_node_body is at a pair emitted before
PairMetAgain == AtPair /\ NamedAndEmitted(pair_tracker, PairSignature(Top))

SharedNameOf(value) ==
  IF is_object(value) THEN object_tracker.signature_to_var[Dump(value)]
  ELSE array_tracker.signature_to_var[Dump(value)]

NothingEmitted ==
  UNCHANGED <<lines, obj_count, string_tracker, object_tracker, array_tracker, pair_tracker>>

C23_ProcessedIsReferencedOnly ==
  [][/\ MetAgain =>
          /\ NothingEmitted
          /\ stack' = Caller
          /\ ret' = Ref(SharedNameOf(Top.node))
     /\ PairMetAgain =>
          /\ NothingEmitted
          /\ ret' = ret
          /\ stack' = SetTop([Top EXCEPT
                                !.acc = Append(@, PairRefEntry(
                                          pair_tracker.signature_to_var[PairSignature(Top)])),
                                !.i = @ + 1])]_vars

\* the second of two equal objects of an array has been returned as the
\* name its first occurrence was defined under, and a shared pair has been
\* emitted before
C23_Witness ==
  /\ InBody("await_elem")
  /\ Top.i = 2
  /\ Top.node.c[1] = Top.node.c[2]
  /\ is_object(Returned)
  /\ NamedAndEmitted(object_tracker, Dump(Returned))
  /\ ret = Ref(SharedNameOf(Returned))
  /\ pair_tracker.processed_signatures # {}

---------------------------------------------------------------------------
(* C24: the names defined in one compile() output are pairwise distinct:   *)
(* each tracker numbers its shared signatures from its own counter under   *)
(* its own prefix, no two signatures of a kind get the same number, and    *)
(* every object_data_ array gets a number of its own.                      *)

\* no two keys of the name map m have the same name: prefix p, a number
\* below the counter
NumbersOnce(m, p, counter) ==
  /\ \A x \in DOMAIN m : m[x].p = p /\ m[x].n < counter
  /\ \A x, y \in DOMAIN m : m[x] = m[y] => x = y

C24_NamesDistinct ==
  /\ \A i, j \in 1..Len(lines) :
       (lines[i].t \in DefiningTypes /\ lines[j].t \in DefiningTypes
          /\ lines[i].name = lines[j].name) => i = j
  /\ NumbersOnce(string_tracker.string_to_var, "shared_str", string_tracker.counter)
  /\ NumbersOnce(object_tracker.signature_to_var, "shared_obj", object_tracker.counter)
  /\ NumbersOnce(array_tracker.signature_to_var, "shared_arr", array_tracker.counter)
  /\ NumbersOnce(pair_tracker.signature_to_var, "shared_pair", pair_tracker.counter)
  /\ \A i \in LinesOfType("object_data_pairs") \cup LinesOfType("object_data_json") :
       lines[i].name.n < obj_count

\* a finished output that defines two shared pairs, two shared strings and
\* three object_data_ arrays
C24_Witness ==
  /\ Done
  /\ Cardinality(LinesOfType("pair_def")) >= 2
  /\ Cardinality(LinesOfType("string_def")) >= 2
  /\ Cardinality(LinesOfType("object_data_pairs") \cup LinesOfType("object_data_json")) >= 3

---------------------------------------------------------------------------
(* C25: every shared_str_, shared_obj_, shared_arr_ and shared_pair_       *)
(* definition that compile() emits is referenced at least twice in the     *)
(* emitted output.                                                         *)

\* the places of the output that hold name: a line and the slot of it
ReferencesTo(name) ==
  {<<i, "a">> : i \in {j \in 1..Len(lines) : name \in NamesIn(lines[j].a)}}
    \cup {<<i, "b">> : i \in {j \in 1..Len(lines) : name \in NamesIn(lines[j].b)}}
    \cup {<<i, "name">> : i \in {j \in LinesOfType("pair_ref") : lines[j].name = name}}

C25_SharedReferencedTwice ==
  Done =>
    \A i \in LinesOfType("string_def") \cup LinesOfType("shared_def") \cup LinesOfType("pair_def") :
      Cardinality(ReferencesTo(lines[i].name)) >= 2

---------------------------------------------------------------------------
(* C26: a loop over an object Value from begin() to end() visits the pairs *)
(* in storage order: at step i key() is the key of the i-th pair and       *)
(* dereferencing yields its value; key() on an iterator over a Value that  *)
(* is not an object raises an error.                                       *)

C26_ObjectIterationInOrder ==
  /\ (result.op = "key" /\ is_object(json)) =>
       Returns(result.out, json.keys[result.arg + 1])
  /\ (result.op = "key" /\ ~is_object(json)) => result.out.thrown
  /\ (result.op = "++" /\ is_object(json)) =>
       \A i \in 1..Len(result.out) : Returns(result.out[i], json.c[i])

\* key() at the second pair of an object of two different keys has
\* returned the second key
C26_Witness ==
  /\ result.op = "key"
  /\ is_object(json)
  /\ Len(json.keys) = 2
  /\ json.keys[1] # json.keys[2]
  /\ result.arg = 1
  /\ Returns(result.out, json.keys[2])

---------------------------------------------------------------------------
(* C28: for every object Value and every key, at(key) succeeds iff         *)
(* find(key) != end() iff count(key) == 1; when they succeed, at(key) and  *)
(* *find(key) are the same element, the value of the first pair with that  *)
(* key; count(key) is 0 otherwise and never exceeds 1, also when the key   *)
(* is duplicated.                                                          *)

C28_LookupsAgree ==
  (result.op = "count" /\ is_object(json)) =>
    LET k == result.arg
        a == at(json, k)
        f == find(json, k)
        present == Matches(json, k) # {}
    IN /\ ~f.thrown
       /\ ~a.thrown <=> present
       /\ f.value # end(json) <=> present
       /\ Returns(result.out, IF present THEN 1 ELSE 0)
       /\ present =>
            /\ f.value + 1 = First(Matches(json, k))
            /\ Star(json, f.value) = {a}
            /\ Returns(a, json.c[First(Matches(json, k))])

\* count() of a key held by two pairs with different values has returned 1
C28_Witness ==
  /\ result.op = "count"
  /\ is_object(json)
  /\ json.keys = <<result.arg, result.arg>>
  /\ json.c[1] # json.c[2]
  /\ Returns(result.out, 1)

---------------------------------------------------------------------------
(* C29: a default-constructed Value behaves as JSON null: is_null() is     *)
(* true, size() is 0, empty() is true and begin() == end().                *)

C29_DefaultIsNull ==
  json = Empty =>
    /\ is_null(json)
    /\ result.op = "size" => result.out = 0
    /\ result.op = "empty" => result.out = TRUE
    /\ result.op = "begin" => result.arg = end(json)

---------------------------------------------------------------------------
(* The packed revision's containers and its positional operator[].         *)

\* the Values that containers of the packed revision hold
PackedItems ==
  {PackedOther("Null", 0, [i \in 1..capacity |-> NUL]),
   PackedOther("Boolean", 0, [i \in 1..capacity |-> "a"]),
   PackedString(<<"a">>, [i \in 1..capacity |-> NUL])}

\* the keys of a pair are string Values
PackedKeys == {PackedString(<<c>>, [i \in 1..capacity |-> NUL]) : c \in {"a", "b"}}

PackedPairs == [first : PackedKeys, second : PackedItems]

\* the lengths of the backing arrays: up to MaxWidth, and one past LENGTH_MASK
Widths == 0..MaxWidth \cup {LENGTH_MASK + 1}

\* a backing array of n elements, the same one repeated beyond MaxWidth
Backing(S, n) ==
  IF n <= MaxWidth THEN [1..n -> S]
  ELSE {[i \in 1..n |-> x] : x \in S}

\* part_004: basic_json(basic_array_t<CharType> v)
PackedArray(v) ==
  [rev |-> "part_004", sv |-> <<>>,
   type_and_length_ |-> set_type_and_length("Array", Len(v)),
   data_ |-> [array_value |-> v]]

\* part_004: basic_json(basic_object_t<CharType> v)
PackedObject(v) ==
  [rev |-> "part_004", sv |-> <<>>,
   type_and_length_ |-> set_type_and_length("Object", Len(v)),
   data_ |-> [object_value |-> v]]

\* mutant: an object yields the key of the pair
Subscript_004_First(v, index) ==
  IF type(v) = TypeCode["Array"]
  THEN IF index >= length(v) THEN Throw("Array index out of range")
       ELSE Got(v.data_.array_value[index + 1])
  ELSE IF type(v) = TypeCode["Object"]
  THEN IF index >= length(v) THEN Throw("Object item index out of range")
       ELSE Got(v.data_.object_value[index + 1].first)
  ELSE Throw("JSON value is not a container (array or object)")

\* part_004: operator[](size_t index); std::out_of_range carries the two
\* range messages and std::runtime_error the third
Subscript_004(v, index) ==
  IF type(v) = TypeCode["Array"]
  THEN IF index >= length(v) THEN Throw("Array index out of range")
       ELSE Got(v.data_.array_value[index + 1])
  ELSE IF type(v) = TypeCode["Object"]
  THEN IF index >= length(v) THEN Throw("Object item index out of range")
       ELSE Got(v.data_.object_value[index + 1].second)
  ELSE Throw("JSON value is not a container (array or object)")

\* a Value of the packed revision is constructed
ConstructContainer ==
  /\ \E n \in Widths :
       \/ \E v \in Backing(PackedItems, n) : json' = PackedArray(v)
       \/ \E v \in Backing(PackedPairs, n) : json' = PackedObject(v)
  /\ result' = NoResult
  /\ UNCHANGED aside

ConstructScalar ==
  /\ json' \in PackedItems
  /\ result' = NoResult
  /\ UNCHANGED aside

\* json[index], on a Value that a public constructor made
SubscriptPacked ==
  /\ json # NoValue
  /\ result.op # "set_type_and_length"
  /\ \E index \in 0..(MaxWidth + 1) :
       result' = Called("operator[]", index, Subscript_004(json, index))
  /\ UNCHANGED <<json, aside>>

\* set_type_and_length(t, len), the private member the constructors call,
\* for every size_t len; data_ is not read before the next construction
SetTypeAndLength ==
  /\ \E t \in DOMAIN TypeCode : \E len \in 0..(TwoTo(SizeBits) - 1) :
       /\ json' = PackedOther(t, len, [i \in 1..capacity |-> NUL])
       /\ result' = Called("set_type_and_length", <<t, len>>, <<>>)
  /\ UNCHANGED aside

PackedNext ==
  \/ ConstructContainer
  \/ ConstructScalar
  \/ SubscriptPacked
  \/ SetTypeAndLength

PackedSpec == ViewInit /\ [][PackedNext]_vars

---------------------------------------------------------------------------
(* C27: in the packed revision operator[](i) on an object returns the      *)
(* value of the i-th pair in storage order and on an array the i-th        *)
(* element; for i >= length it raises out_of_range for both kinds, and on  *)
(* a scalar or null Value it raises a type-mismatch error.                 *)

C27_PositionalSubscript ==
  result.op = "operator[]" =>
    LET i == result.arg
        kind == type(json)
    IN /\ (kind = TypeCode["Array"] /\ i < length(json)) =>
            Returns(result.out, json.data_.array_value[i + 1])
       /\ (kind = TypeCode["Object"] /\ i < length(json)) =>
            Returns(result.out, json.data_.object_value[i + 1].second)
       /\ (kind = TypeCode["Array"] /\ i >= length(json)) =>
            Throws(result.out, "Array index out of range")
       /\ (kind = TypeCode["Object"] /\ i >= length(json)) =>
            Throws(result.out, "Object item index out of range")
       /\ kind \notin {TypeCode["Array"], TypeCode["Object"]} =>
            Throws(result.out, "JSON value is not a container (array or object)")

\* the second pair of an object whose pairs differ in key and value was read
C27_Witness ==
  /\ result.op = "operator[]"
  /\ result.arg = 1
  /\ type(json) = TypeCode["Object"]
  /\ length(json) = 2
  /\ json.data_.object_value[1].second # json.data_.object_value[2].second
  /\ json.data_.object_value[2].first # json.data_.object_value[2].second
  /\ Returns(result.out, json.data_.object_value[2].second)

---------------------------------------------------------------------------
(* C30: in the packed revision, with a size_t of SizeBits bits, for each   *)
(* of the eight type tags t and every len < 2^(SizeBits-4), after          *)
(* set_type_and_length(t, len) type() returns t and length() returns len;  *)
(* for len >= 2^(SizeBits-4) the length is len modulo 2^(SizeBits-4) and   *)
(* type() still returns t.                                                 *)

C30_TagAndLengthReadBack ==
  result.op = "set_type_and_length" =>
    LET t == result.arg[1]
        len == result.arg[2]
    IN /\ type(json) = TypeCode[t]
       /\ len < TwoTo(SizeBits - 4) => length(json) = len
       /\ len >= TwoTo(SizeBits - 4) => length(json) = len % TwoTo(SizeBits - 4)

\* a length with bits above the length field was stored under the last tag
C30_Witness ==
  /\ result.op = "set_type_and_length"
  /\ result.arg[1] = "String"
  /\ result.arg[2] >= TwoTo(SizeBits - 4)
  /\ length(json) # 0
  /\ length(json) # result.arg[2]

=============================================================================
